---- MODULE Spec2Model ----
(***************************************************************************)
(* Render-job subsystem of the RenderCV web service.                       *)
(*                                                                         *)
(* State: the committed rows of the relational store (users, cvs,          *)
(* render_jobs), the blob store, the RQ "render" queue, every API request  *)
(* in flight (its position in the handler and the ORM objects of its       *)
(* session) and every worker process (its position in                      *)
(* tasks.process_render_job).  One action per commit, blob write or queue  *)
(* operation of the handlers.                                              *)
(***************************************************************************)
EXTENDS Integers, Sequences, FiniteSets, TLC

\* ------------------------------------------------------------------ bounds
\* Number of render_jobs rows ever inserted.
MaxJobs == 2
\* Number of times a worker takes an id from the queue.
MaxDeliveries == 2

\* ------------------------------------------------------- optional values
\* Python's None is the empty sequence, a present value v is <<v>>.
None == <<>>
Some(v) == <<v>>
IsSet(x) == x # <<>>
Get(x) == x[1]

\* ------------------------------------------------------------- universes
Users == {"u1", "u2"}
\* The user whose render requests the model follows.
Callers == {"u1"}
Cvs == {"c1", "c2"}
CvOwner(c) == IF c = "c1" THEN "u1" ELSE "u2"
Reqs == {"r1", "r2"}
Workers == {"w1", "w2"}
JobIds == {"j" \o ToString(n) : n \in 1..MaxJobs}
\* Formats a RenderRequest carries in this model (a subset of OutputFormat).
RequestFormats == {"pdf", "markdown"}
Endpoints == {"render_cv", "render_cv_sync"}
\* Bytes the converter returns, and the messages of the errors it and the
\* blob store raise.
Contents == {<<37>>, <<37, 80>>}
ConverterError == "invalid typst"
StorageError == "disk full"
RenderErrors == {ConverterError, StorageError}

\* ------------------------------------------------------------ models.py
PENDING == "pending"
PROCESSING == "processing"
COMPLETED == "completed"
FAILED == "failed"
RenderStatus == {PENDING, PROCESSING, COMPLETED, FAILED}

FREE == "free"
PRO == "pro"
ENTERPRISE == "enterprise"
UserTier == {FREE, PRO, ENTERPRISE}

render_limit(tier) ==
    CASE tier = FREE -> 10
      [] tier = PRO -> 100
      [] tier = ENTERPRISE -> 1000
      [] OTHER -> 10

\* can_render with the comparison off by one.
can_render_inclusive(renders_this_month, tier) == renders_this_month <= render_limit(tier)

can_render(renders_this_month, tier) == renders_this_month < render_limit(tier)

\* A freshly inserted render_jobs row (column defaults of RenderJob); the
\* database fills created_at with its clock at the insert.
NewJobRow(cv_id, user_id, output_format) ==
    [cv_id |-> cv_id, user_id |-> user_id, output_format |-> output_format,
     status |-> PENDING, output_path |-> None, output_url |-> None,
     file_size_bytes |-> None, error_message |-> None,
     started_at |-> None, completed_at |-> None, created_at |-> 0]

\* ------------------------------------------------------------ storage.py
\* str.lower() on the values output_format takes.
Lower(s) ==
    CASE s = "PDF" -> "pdf"
      [] s = "PNG" -> "png"
      [] s = "HTML" -> "html"
      [] s = "MARKDOWN" -> "markdown"
      [] OTHER -> s

\* _generate_path without the directory of the CV.
_generate_path_flat(user_id, cv_id, job_id, filename) ==
    "renders/" \o user_id \o "/" \o job_id \o "/" \o filename

_generate_path(user_id, cv_id, job_id, filename) ==
    "renders/" \o user_id \o "/" \o cv_id \o "/" \o job_id \o "/" \o filename

\* LocalStorageBackend.get_url
get_url(path) == "/api/v1/files/" \o path

\* save_render_output with the size of the content in the file name.
save_render_output_sized(content, user_id, cv_id, job_id, output_format) ==
    LET extension == Lower(output_format)
        filename == "cv" \o ToString(Len(content)) \o "." \o extension
        path == _generate_path(user_id, cv_id, job_id, filename)
    IN [path |-> path, url |-> get_url(path), size |-> Len(content)]

\* FileService.save_render_output: the (path, url, size) it returns.
save_render_output(content, user_id, cv_id, job_id, output_format) ==
    LET extension == Lower(output_format)
        filename == "cv." \o extension
        path == _generate_path(user_id, cv_id, job_id, filename)
    IN [path |-> path, url |-> get_url(path), size |-> Len(content)]

\* LocalStorageBackend.save: the blob store after writing content at path.
save(store, content, path) ==
    [p \in DOMAIN store \cup {path} |-> IF p = path THEN content ELSE store[p]]

\* The store without the object at path.
Remove(store, path) == [p \in DOMAIN store \ {path} |-> store[p]]

\* LocalStorageBackend.get, exists, delete: what is returned and the store left.
local_get(store, path) ==
    [raised |-> FALSE, store |-> store,
     result |-> IF path \in DOMAIN store THEN Some(store[path]) ELSE None]

local_exists(store, path) ==
    [raised |-> FALSE, store |-> store, result |-> Some(path \in DOMAIN store)]

local_delete(store, path) ==
    IF path \in DOMAIN store
    THEN [raised |-> FALSE, store |-> Remove(store, path), result |-> Some(TRUE)]
    ELSE [raised |-> FALSE, store |-> store, result |-> Some(FALSE)]

\* S3StorageBackend.get, exists, delete. get_object and head_object raise for a
\* key that holds no object, and the except clause turns that into None and
\* False; delete_object succeeds for every key, so delete returns True.
s3_get(store, path) ==
    [raised |-> FALSE, store |-> store,
     result |-> IF path \in DOMAIN store THEN Some(store[path]) ELSE None]

s3_exists(store, path) ==
    [raised |-> FALSE, store |-> store, result |-> Some(path \in DOMAIN store)]

s3_delete(store, path) ==
    [raised |-> FALSE, store |-> Remove(store, path), result |-> Some(TRUE)]

\* settings.storage_backend
Backends == {"local", "s3"}

\* The values of OutputFormat.
OutputFormat == {"pdf", "png", "html", "markdown"}

\* ----------------------------------------------------------------- state
VARIABLES
    users,          \* users rows: id -> [tier, renders_this_month, renders_reset_at]
    cvs,            \* ids of the cvs rows that exist
    jobs,           \* render_jobs rows: id -> row, for the ids that exist
    blobs,          \* blob store: path -> bytes, for the paths that hold an object
    queue,          \* job ids on the RQ "render" queue
    req,            \* API requests: slot -> handler position and session objects
    wk,             \* worker processes: id -> position in process_render_job
    nextJob,        \* number of render_jobs rows inserted so far
    deliveries,     \* number of ids workers have taken from the queue so far
    delivered,      \* history: the ids workers have taken from the queue
    initial,        \* history: renders_this_month of every user at Init
    incs,           \* history: user -> number of committed counter increments
    created,        \* history: user -> number of jobs created by admissions
    counted,        \* history: job ids whose admission committed its increment
    call,           \* the last call made on the blob store by itself, and its outcome
    tokens,         \* refresh_tokens rows: token -> [user_id, is_revoked, expired]
    rt,             \* requests to /auth/refresh: slot -> position, token, answer
    refreshed,      \* history: token -> number of token pairs issued for it
    spent,          \* history: tokens refreshed, logged out or revoked with their user's
    requests,       \* RateLimitMiddleware.requests: client -> times of its requests
    clock,          \* time.time(), in seconds
    forwarded,      \* history: client -> time and path of the requests passed on to the app
    limited,        \* history: client -> number of requests answered 429
    capacity        \* the number of jobs a run creates at most

\* The state of authentication and of the rate limiter.
authVars == <<tokens, rt, refreshed, spent>>
limiterVars == <<requests, clock, forwarded, limited>>

vars == <<users, cvs, jobs, blobs, queue, req, wk, nextJob, deliveries,
          delivered, initial, incs, created, counted, call, authVars, limiterVars, capacity>>

\* A request slot: the handler's position, the attributes of the User object its
\* session loaded, the RenderJob object of its session, what enqueue_render_job
\* did, whether process_render_job ran in the request, and the answer.
IdleReq ==
    [pc |-> "idle", endpoint |-> "", user |-> "", cv |-> "", format |-> "",
     renders_this_month |-> 0, renders_reset_at |-> None,
     job_id |-> "", job |-> None, enqueue |-> "none", inline |-> FALSE,
     bytes |-> <<>>, response |-> None]

\* A worker: its position, the job id it was handed, the columns it read from
\* the job and its CV, the status it found, and the bytes it rendered.
IdleWorker ==
    [pc |-> "idle", job_id |-> "", loaded_status |-> "", args |-> None,
     bytes |-> <<>>]

\* No call has been made on the blob store by itself. A call records the
\* backend, the method, the path, the arguments of save_render_output, whether
\* the path held an object, whether the call raised, and what it returned.
NoCall ==
    [backend |-> "", op |-> "", path |-> "", args |-> <<>>, held |-> FALSE,
     raised |-> FALSE, result |-> None]

\* Number of refresh tokens issued in a run, the first one at login.
MaxTokens == 3

TokenIds == {"t" \o ToString(n) : n \in 1..MaxTokens}

\* Concurrent requests to /auth/refresh.
RefreshSlots == {"x1", "x2"}

\* No request: position, the token presented, the status answered and the
\* refresh token of the pair returned.
IdleRefresh == [pc |-> "idle", token |-> "", code |-> 0, issued |-> ""]

\* The client keys the rate limiter sees.
Clients == {"10.0.0.1", "10.0.0.2"}

\* The accounts a run starts from: tier and renders already used this month.
InitAccounts ==
    {<<FREE, 0>>, <<FREE, 9>>, <<FREE, 10>>, <<PRO, 99>>, <<ENTERPRISE, 1000>>}

UserRow(account) ==
    [tier |-> account[1], renders_this_month |-> account[2],
     renders_reset_at |-> IF account[2] = 0 THEN None ELSE Some(0)]

\* The state after construction, for a run that creates at most n jobs.
Start(n) ==
    /\ capacity = n
    /\ \E a \in InitAccounts :
         users = [u \in Users |-> IF u \in Callers THEN UserRow(a)
                                                   ELSE UserRow(<<FREE, 0>>)]
    /\ cvs = Cvs
    /\ jobs = [j \in {} |-> None]
    /\ blobs = [p \in {} |-> None]
    /\ queue = {}
    /\ req = [r \in Reqs |-> IdleReq]
    /\ wk = [w \in Workers |-> IdleWorker]
    /\ nextJob = 0
    /\ deliveries = 0
    /\ delivered = {}
    /\ initial = [u \in Users |-> users[u].renders_this_month]
    /\ incs = [u \in Users |-> 0]
    /\ created = [u \in Users |-> 0]
    /\ counted = {}
    /\ call = NoCall
    /\ tokens = [t \in {"t1"} |-> [user_id |-> "u1", is_revoked |-> FALSE, expired |-> FALSE]]
    /\ rt = [x \in RefreshSlots |-> IdleRefresh]
    /\ refreshed = [t \in TokenIds |-> 0]
    /\ spent = {}
    /\ requests = [c \in {} |-> <<>>]
    /\ clock = 0
    /\ forwarded = [c \in Clients |-> <<>>]
    /\ limited = [c \in Clients |-> 0]

Init == Start(MaxJobs)

\* Time. datetime.now(timezone.utc) is read when a timestamp is written, and
\* these timestamps are compared within one row only (created_at, the one
\* compared across rows, is the reading of clock). Instants are integers: the
\* reading for started_at or renders_reset_at is a new instant, later than every
\* instant the row holds; the reading for completed_at repeats the latest
\* instant of the row.
Latest(stamps) ==
    LET set == {Get(t) : t \in {x \in stamps : IsSet(x)}}
    IN IF set = {} THEN 0 ELSE CHOOSE m \in set : \A n \in set : n <= m

JobLatest(j) ==
    IF j \in DOMAIN jobs THEN Latest({jobs[j].started_at, jobs[j].completed_at}) ELSE 0

\* Job columns after assigning the attributes in changes.
Assign(row, changes) ==
    [col \in DOMAIN row |-> IF col \in DOMAIN changes THEN changes[col] ELSE row[col]]

\* The rows of jobs after the UPDATE a commit flushes for job j; it matches no
\* row when the row was deleted, and the table is unchanged.
UpdateJob(j, changes) ==
    IF j \in DOMAIN jobs THEN [jobs EXCEPT ![j] = Assign(@, changes)] ELSE jobs

\* The branch for a missing CV without its message.
CvNotFoundChanges_silent == [status |-> FAILED]

\* The attributes each branch of process_render_job assigns before a commit.
CvNotFoundChanges == [status |-> FAILED, error_message |-> Some("CV not found")]
ProcessingChanges(now) == [status |-> PROCESSING, started_at |-> Some(now)]
CompletedChanges(out, now) ==
    [status |-> COMPLETED, output_path |-> Some(out.path), output_url |-> Some(out.url),
     file_size_bytes |-> Some(out.size), completed_at |-> Some(now)]
FailedChanges(msg, now) ==
    [status |-> FAILED, error_message |-> Some(msg), completed_at |-> Some(now)]

\* No answer waits to be sent: an answer leaves before anything else happens.
Quiet == \A q \in Reqs : req[q].pc # "responded"

\* ------------------------------------------------------ routers/render.py
\* An answer: the HTTP status, the RenderJobResponse fields of the job it
\* carries (None for an error), and the detail of an error.
Response(code, job, detail) == Some([code |-> code, job |-> job, detail |-> detail])

JobResponse(code, id, job) ==
    Response(code, Some([id |-> id, status |-> job.status, output_url |-> job.output_url,
                         error_message |-> job.error_message]), "")

\* A request whose handler has returned or raised: only its answer is left.
Responded(me, response) ==
    [IdleReq EXCEPT !.pc = "responded", !.endpoint = me.endpoint, !.user = me.user,
                    !.enqueue = me.enqueue, !.inline = me.inline,
                    !.response = response]

\* The answer of a handler that returns the job whatever its status.
AnswerWith_failed_as_job(ep, id, job) ==
    JobResponse(IF ep = "render_cv" THEN 202 ELSE 200, id, job)

\* What the handler answers once process_render_job has returned the job:
\* render_cv answers 202 with the job, render_cv_sync raises 500 for a FAILED job.
AnswerWith(ep, id, job) ==
    IF ep = "render_cv_sync" /\ job.status = FAILED
    THEN Response(500, None, IF IsSet(job.error_message) THEN Get(job.error_message)
                                                         ELSE "Render failed")
    ELSE JobResponse(IF ep = "render_cv" THEN 202 ELSE 200, id, job)

\* The handlers with the CV lookup before the quota check.
Admit_document_first(r, u, c, fmt, ep) ==
    /\ Quiet
    /\ req[r].pc = "idle"
    /\ \A q \in Reqs : (q = "r1" /\ r # q) => req[q].pc # "idle"
    /\ u \in DOMAIN users
    /\ LET row == users[u]
           loaded == [req[r] EXCEPT !.endpoint = ep, !.user = u, !.cv = c,
                        !.format = fmt,
                        !.renders_this_month = row.renders_this_month,
                        !.renders_reset_at = row.renders_reset_at]
       IN IF ~(c \in cvs /\ CvOwner(c) = u)
          THEN req' = [req EXCEPT ![r] =
                         Responded(loaded, Response(404, None, "CV not found"))]
          ELSE IF ~can_render(row.renders_this_month, row.tier)
          THEN req' = [req EXCEPT ![r] =
                         Responded(loaded, Response(429, None, "Monthly render limit exceeded"))]
          ELSE /\ nextJob + Cardinality({q \in Reqs : req[q].pc = "admitted"}) < capacity
               /\ req' = [req EXCEPT ![r] = [loaded EXCEPT !.pc = "admitted"]]
    /\ UNCHANGED <<users, cvs, jobs, blobs, queue, wk, nextJob, deliveries,
                   delivered, initial, incs, created, counted,
                   call, authVars, limiterVars, capacity>>

\* render_cv / render_cv_sync up to the CV lookup: the user row is loaded by
\* get_current_user, then the quota check, then the CV lookup. Request slots
\* are interchangeable, so a request takes r2 only while r1 is taken.
Admit(r, u, c, fmt, ep) ==
    /\ Quiet
    /\ req[r].pc = "idle"
    /\ \A q \in Reqs : (q = "r1" /\ r # q) => req[q].pc # "idle"
    /\ u \in DOMAIN users
    /\ LET row == users[u]
           loaded == [req[r] EXCEPT !.endpoint = ep, !.user = u, !.cv = c,
                        !.format = fmt,
                        !.renders_this_month = row.renders_this_month,
                        !.renders_reset_at = row.renders_reset_at]
       IN IF ~can_render(row.renders_this_month, row.tier)
          THEN req' = [req EXCEPT ![r] =
                         Responded(loaded, Response(429, None, "Monthly render limit exceeded"))]
          ELSE IF ~(c \in cvs /\ CvOwner(c) = u)
          THEN req' = [req EXCEPT ![r] =
                         Responded(loaded, Response(404, None, "CV not found"))]
          ELSE /\ nextJob + Cardinality({q \in Reqs : req[q].pc = "admitted"}) < capacity
               /\ req' = [req EXCEPT ![r] = [loaded EXCEPT !.pc = "admitted"]]
    /\ UNCHANGED <<users, cvs, jobs, blobs, queue, wk, nextJob, deliveries,
                   delivered, initial, incs, created, counted,
                   call, authVars, limiterVars, capacity>>

\* create_render_job handing back a job whose insert was never committed.
CreateJob_uncommitted(r) ==
    /\ Quiet
    /\ req[r].pc = "admitted"
    /\ LET j == "j" \o ToString(nextJob + 1)
           row == [NewJobRow(req[r].cv, CvOwner(req[r].cv), req[r].format)
                     EXCEPT !.created_at = clock]
       IN /\ jobs' = jobs
          /\ req' = [req EXCEPT ![r].pc = "created", ![r].job_id = j,
                                 ![r].job = Some(row)]
    /\ nextJob' = nextJob + 1
    /\ created' = [created EXCEPT ![req[r].user] = @ + 1]
    /\ UNCHANGED <<users, cvs, blobs, queue, wk, deliveries, delivered,
                   initial, incs, counted,
                   call, authVars, limiterVars, capacity>>

\* RenderService.create_render_job: insert the row, commit, refresh.
CreateJob(r) ==
    /\ Quiet
    /\ req[r].pc = "admitted"
    /\ LET j == "j" \o ToString(nextJob + 1)
           row == [NewJobRow(req[r].cv, CvOwner(req[r].cv), req[r].format)
                     EXCEPT !.created_at = clock]
       IN /\ jobs' = [k \in DOMAIN jobs \cup {j} |-> IF k = j THEN row ELSE jobs[k]]
          /\ req' = [req EXCEPT ![r].pc = "created", ![r].job_id = j,
                                 ![r].job = Some(row)]
    /\ nextJob' = nextJob + 1
    /\ created' = [created EXCEPT ![req[r].user] = @ + 1]
    /\ UNCHANGED <<users, cvs, blobs, queue, wk, deliveries, delivered,
                   initial, incs, counted,
                   call, authVars, limiterVars, capacity>>

\* "Increment render count": the handler adds one to the attribute of the User
\* object in its session and commits; the UPDATE carries the resulting values,
\* and raises when the row of the user is gone.
IncrementCount(r) ==
    /\ Quiet
    /\ req[r].pc = "created"
    /\ IF req[r].user \notin DOMAIN users
       THEN /\ req' = [req EXCEPT ![r] =
                         Responded(req[r], Response(500, None, "StaleDataError"))]
            /\ UNCHANGED <<users, incs, counted>>
       ELSE LET u == req[r].user
                first == ~IsSet(req[r].renders_reset_at)
                n == req[r].renders_this_month + 1
                now == Latest({users[u].renders_reset_at}) + 1
            IN /\ users' = [users EXCEPT ![u].renders_this_month = n,
                               ![u].renders_reset_at = IF first THEN Some(now) ELSE @]
               /\ req' = [req EXCEPT ![r].pc = "counted", ![r].renders_this_month = n,
                               ![r].renders_reset_at = IF first THEN Some(now) ELSE @]
               /\ incs' = [incs EXCEPT ![u] = @ + 1]
               /\ counted' = counted \cup {req[r].job_id}
    /\ UNCHANGED <<cvs, jobs, blobs, queue, wk, nextJob, deliveries, delivered,
                   initial, created,
                   call, authVars, limiterVars, capacity>>

\* render_cv with an enqueue_render_job that reports success and puts no id on
\* the queue.
EnqueueOk_lost(r) ==
    /\ Quiet
    /\ req[r].pc = "counted"
    /\ req[r].endpoint = "render_cv"
    /\ req' = [req EXCEPT ![r] = Responded([req[r] EXCEPT !.enqueue = "ok"],
                        AnswerWith("render_cv", req[r].job_id, Get(req[r].job)))]
    /\ UNCHANGED <<users, cvs, jobs, blobs, queue, wk, nextJob, deliveries, delivered,
                   initial, incs, created, counted,
                   call, authVars, limiterVars, capacity>>

\* render_cv: enqueue_render_job succeeds, the handler answers with the job object
\* of its session.
EnqueueOk(r) ==
    /\ Quiet
    /\ req[r].pc = "counted"
    /\ req[r].endpoint = "render_cv"
    /\ queue' = queue \cup {req[r].job_id}
    /\ req' = [req EXCEPT ![r] = Responded([req[r] EXCEPT !.enqueue = "ok"],
                        AnswerWith("render_cv", req[r].job_id, Get(req[r].job)))]
    /\ UNCHANGED <<users, cvs, jobs, blobs, wk, nextJob, deliveries, delivered,
                   initial, incs, created, counted,
                   call, authVars, limiterVars, capacity>>

\* The fallback of render_cv with the error of enqueue_render_job swallowed and
\* nothing run in its place.
InlineBegin_swallowed(r) ==
    /\ Quiet
    /\ req[r].pc = "counted"
    /\ LET ep == req[r].endpoint
           me == [req[r] EXCEPT !.enqueue = IF ep = "render_cv" THEN "failed" ELSE "none"]
       IN req' = [req EXCEPT ![r] =
                     Responded(me, AnswerWith(ep, req[r].job_id, Get(req[r].job)))]
    /\ UNCHANGED <<users, cvs, jobs, blobs, queue, wk, nextJob, deliveries, delivered,
                   initial, incs, created, counted,
                   call, authVars, limiterVars, capacity>>

\* RenderService.process_render_job up to its first commit, entered by
\* render_cv when enqueue_render_job raised and by render_cv_sync always.
InlineBegin(r) ==
    /\ Quiet
    /\ req[r].pc = "counted"
    /\ LET j == req[r].job_id
           ep == req[r].endpoint
           me == [req[r] EXCEPT !.inline = TRUE,
                     !.enqueue = IF ep = "render_cv" THEN "failed" ELSE "none"]
       IN IF j \notin DOMAIN jobs
          THEN /\ req' = [req EXCEPT ![r] =
                            Responded(me, Response(500, None, "Render job not found"))]
               /\ UNCHANGED jobs
          ELSE IF jobs[j].cv_id \notin cvs
          THEN /\ jobs' = UpdateJob(j, CvNotFoundChanges)
               /\ req' = [req EXCEPT ![r] =
                            Responded(me, AnswerWith(ep, j, Assign(Get(me.job), CvNotFoundChanges)))]
          ELSE /\ jobs' = UpdateJob(j, ProcessingChanges(JobLatest(j) + 1))
               /\ req' = [req EXCEPT ![r] = [me EXCEPT !.pc = "processing",
                            !.job = Some(Assign(Get(me.job),
                                                ProcessingChanges(JobLatest(j) + 1)))]]
    /\ UNCHANGED <<users, cvs, blobs, queue, wk, nextJob, deliveries, delivered,
                   initial, incs, created, counted,
                   call, authVars, limiterVars, capacity>>

\* The try block of RenderService.process_render_job when nothing raises:
\* _render_cv returns bytes and save_render_output stores them.
InlineSave(r) ==
    /\ Quiet
    /\ req[r].pc = "processing"
    /\ \E content \in Contents :
         LET out == save_render_output(content, CvOwner(req[r].cv), req[r].cv,
                                       req[r].job_id, Get(req[r].job).output_format)
         IN /\ blobs' = save(blobs, content, out.path)
            /\ req' = [req EXCEPT ![r].pc = "saved", ![r].bytes = content]
    /\ UNCHANGED <<users, cvs, jobs, queue, wk, nextJob, deliveries, delivered,
                   initial, incs, created, counted,
                   call, authVars, limiterVars, capacity>>

\* The end of RenderService.process_render_job: the commit and the refresh, then
\* the handler's answer. The commit raises when the row is gone.
InlineCommit(r, changes) ==
    LET j == req[r].job_id
    IN /\ jobs' = UpdateJob(j, changes)
       /\ IF j \in DOMAIN jobs
          THEN req' = [req EXCEPT ![r] =
                          Responded(req[r], AnswerWith(req[r].endpoint, j, jobs'[j]))]
          ELSE req' = [req EXCEPT ![r] =
                          Responded(req[r], Response(500, None, "StaleDataError"))]
       /\ UNCHANGED <<users, cvs, blobs, queue, wk, nextJob, deliveries,
                      delivered, initial, incs, created, counted,
                   call, authVars, limiterVars, capacity>>

\* "Update job with success", then the commit.
InlineComplete(r) ==
    /\ Quiet
    /\ req[r].pc = "saved"
    /\ InlineCommit(r, CompletedChanges(
           save_render_output(req[r].bytes, CvOwner(req[r].cv), req[r].cv,
                              req[r].job_id, Get(req[r].job).output_format),
           JobLatest(req[r].job_id)))

\* _render_cv or save_render_output raises: "Update job with failure", then
\* the commit.
InlineFail(r) ==
    /\ Quiet
    /\ req[r].pc = "processing"
    /\ \E msg \in RenderErrors : InlineCommit(r, FailedChanges(msg, JobLatest(req[r].job_id)))

\* The client has its answer; the request slot is free again.
ReqReturn(r) ==
    /\ req[r].pc = "responded"
    /\ req' = [req EXCEPT ![r] = IdleReq]
    /\ UNCHANGED <<users, cvs, jobs, blobs, queue, wk, nextJob, deliveries,
                   delivered, initial, incs, created, counted,
                   call, authVars, limiterVars, capacity>>

\* The request dies between two of its steps (process killed, connection to
\* the store lost): nothing more is committed and no answer is sent.
ReqCrash(r) ==
    /\ Quiet
    /\ req[r].pc \in {"admitted", "created", "counted", "processing", "saved"}
    /\ req' = [req EXCEPT ![r] = IdleReq]
    /\ UNCHANGED <<users, cvs, jobs, blobs, queue, wk, nextJob, deliveries,
                   delivered, initial, incs, created, counted,
                   call, authVars, limiterVars, capacity>>

\* ------------------------------------------------------------- tasks.py
\* The worker recording a FAILED row for an id that has no row.
WorkerBegin_records_missing(w, j) ==
    /\ Quiet
    /\ wk[w].pc = "idle"
    /\ j \in queue
    /\ j \notin DOMAIN jobs
    /\ deliveries < MaxDeliveries
    /\ queue' = queue \ {j}
    /\ deliveries' = deliveries + 1
    /\ delivered' = delivered \cup {j}
    /\ jobs' = [k \in DOMAIN jobs \cup {j} |->
                  IF k = j THEN Assign(NewJobRow("", "", "pdf"), FailedChanges("not found", 0))
                           ELSE jobs[k]]
    /\ UNCHANGED <<users, cvs, blobs, req, wk, nextJob, initial, incs, created, counted,
                   call, authVars, limiterVars, capacity>>

\* A worker takes an id from the queue and runs tasks.process_render_job up
\* to its first commit. Workers are interchangeable, so w2 takes an id only
\* while w1 is busy.
WorkerBegin(w, j) ==
    /\ Quiet
    /\ wk[w].pc = "idle"
    /\ \A v \in Workers : (v = "w1" /\ w # v) => wk[v].pc # "idle"
    /\ j \in queue
    /\ deliveries < MaxDeliveries
    /\ queue' = queue \ {j}
    /\ deliveries' = deliveries + 1
    /\ delivered' = delivered \cup {j}
    /\ IF j \notin DOMAIN jobs
       THEN UNCHANGED <<jobs, wk>>
       ELSE IF jobs[j].cv_id \notin cvs
       THEN /\ jobs' = UpdateJob(j, CvNotFoundChanges)
            /\ UNCHANGED wk
       ELSE /\ jobs' = UpdateJob(j, ProcessingChanges(JobLatest(j) + 1))
            /\ wk' = [wk EXCEPT ![w] = [IdleWorker EXCEPT !.pc = "processing",
                         !.job_id = j, !.loaded_status = jobs[j].status,
                         !.args = Some([user_id |-> CvOwner(jobs[j].cv_id),
                                        cv_id |-> jobs[j].cv_id,
                                        output_format |-> jobs[j].output_format])]]
    /\ UNCHANGED <<users, cvs, blobs, req, nextJob, initial, incs, created, counted,
                   call, authVars, limiterVars, capacity>>

\* The try block of tasks.process_render_job when nothing raises. The session
\* expired cv and job at the commit, so reading their attributes reloads them,
\* which raises when a row is gone.
WorkerSave(w) ==
    /\ Quiet
    /\ wk[w].pc = "processing"
    /\ Get(wk[w].args).cv_id \in cvs
    /\ wk[w].job_id \in DOMAIN jobs
    /\ \E content \in Contents :
         LET a == Get(wk[w].args)
             out == save_render_output(content, a.user_id, a.cv_id, wk[w].job_id,
                                       a.output_format)
         IN /\ blobs' = save(blobs, content, out.path)
            /\ wk' = [wk EXCEPT ![w].pc = "saved", ![w].bytes = content]
    /\ UNCHANGED <<users, cvs, jobs, queue, req, nextJob, deliveries, delivered,
                   initial, incs, created, counted,
                   call, authVars, limiterVars, capacity>>

\* A commit of the worker that gives the render back to the user when the job
\* has failed.
WorkerCommit_refunds(w, changes) ==
    /\ jobs' = UpdateJob(wk[w].job_id, changes)
    /\ wk' = [wk EXCEPT ![w] = IdleWorker]
    /\ users' = IF changes.status = FAILED
                THEN [users EXCEPT ![Get(wk[w].args).user_id].renders_this_month = @ - 1]
                ELSE users
    /\ UNCHANGED <<cvs, blobs, queue, req, nextJob, deliveries, delivered,
                   initial, incs, created, counted,
                   call, authVars, limiterVars, capacity>>

\* A commit of tasks.process_render_job after which the function returns (or
\* raises, when the row is gone).
WorkerCommit(w, changes) ==
    /\ jobs' = UpdateJob(wk[w].job_id, changes)
    /\ wk' = [wk EXCEPT ![w] = IdleWorker]
    /\ UNCHANGED <<users, cvs, blobs, queue, req, nextJob, deliveries, delivered,
                   initial, incs, created, counted,
                   call, authVars, limiterVars, capacity>>

\* "Update job", then the commit.
WorkerComplete(w) ==
    /\ Quiet
    /\ wk[w].pc = "saved"
    /\ LET a == Get(wk[w].args)
       IN WorkerCommit(w, CompletedChanges(
              save_render_output(wk[w].bytes, a.user_id, a.cv_id, wk[w].job_id,
                                 a.output_format), JobLatest(wk[w].job_id)))

\* The except block of the worker without completed_at.
WorkerFail_without_completed_at(w) ==
    /\ Quiet
    /\ wk[w].pc = "processing"
    /\ \E msg \in RenderErrors :
         WorkerCommit(w, [status |-> FAILED, error_message |-> Some(msg)])

\* The except block: _render_cv_sync or save_render_output raised, or a
\* reload found its row gone.
WorkerFail(w) ==
    /\ Quiet
    /\ wk[w].pc = "processing"
    /\ \E msg \in RenderErrors : WorkerCommit(w, FailedChanges(msg, JobLatest(wk[w].job_id)))

\* A worker that records FAILED for its job on the way down.
WorkerCrash_marks_failed(w) ==
    /\ Quiet
    /\ wk[w].pc \in {"processing", "saved"}
    /\ jobs' = UpdateJob(wk[w].job_id, FailedChanges("worker died", JobLatest(wk[w].job_id)))
    /\ wk' = [wk EXCEPT ![w] = IdleWorker]
    /\ UNCHANGED <<users, cvs, blobs, queue, req, nextJob, deliveries,
                   delivered, initial, incs, created, counted,
                   call, authVars, limiterVars, capacity>>

\* The worker process dies mid-job; it commits nothing more.
WorkerCrash(w) ==
    /\ Quiet
    /\ wk[w].pc \in {"processing", "saved"}
    /\ wk' = [wk EXCEPT ![w] = IdleWorker]
    /\ UNCHANGED <<users, cvs, jobs, blobs, queue, req, nextJob, deliveries,
                   delivered, initial, incs, created, counted,
                   call, authVars, limiterVars, capacity>>

\* A commit of tasks.process_render_job raises after the PROCESSING commit (the
\* store cannot be reached): the commit in the except block raises as well, the
\* error leaves the function through finally, and the RQ worker, which records
\* the failure of the queue entry, takes the next id.
WorkerCommitFails(w) ==
    /\ Quiet
    /\ wk[w].pc \in {"processing", "saved"}
    /\ wk' = [wk EXCEPT ![w] = IdleWorker]
    /\ UNCHANGED <<users, cvs, jobs, blobs, queue, req, nextJob, deliveries,
                   delivered, initial, incs, created, counted,
                   call, authVars, limiterVars, capacity>>

\* The queue hands out an id it has already delivered (at-least-once delivery).
Redeliver(j) ==
    /\ Quiet
    /\ j \in delivered
    /\ j \notin queue
    /\ deliveries < MaxDeliveries
    /\ queue' = queue \cup {j}
    /\ UNCHANGED <<users, cvs, jobs, blobs, req, wk, nextJob, deliveries,
                   delivered, initial, incs, created, counted,
                   call, authVars, limiterVars, capacity>>

\* ------------------------------------------------------- routers/cvs.py
\* delete_cv by the CV's owner: the CV row and, by the ORM cascade, its
\* render_jobs rows.
delete_cv(u, c) ==
    /\ Quiet
    /\ c \in cvs
    /\ CvOwner(c) = u
    /\ cvs' = cvs \ {c}
    /\ jobs' = [j \in {k \in DOMAIN jobs : jobs[k].cv_id # c} |-> jobs[j]]
    /\ UNCHANGED <<users, blobs, queue, req, wk, nextJob, deliveries,
                   delivered, initial, incs, created, counted,
                   call, authVars, limiterVars, capacity>>

\* --------------------------------------- routers/render.py: job endpoints
\* The lookup of a job by its id alone.
OwnJob_of_anyone(u, j) == j \in DOMAIN jobs

\* The row found by select(RenderJob).where(RenderJob.id == job_id,
\* RenderJob.user_id == current_user.id), when there is one.
OwnJob(u, j) == j \in DOMAIN jobs /\ jobs[j].user_id = u

\* A request to a job endpoint by user u, as its handler starts.
JobRequest(ep, u) == [IdleReq EXCEPT !.endpoint = ep, !.user = u]

JobNotFound == Response(404, None, "Render job not found")

\* What the job endpoints never touch.
JobFrame ==
    UNCHANGED <<users, cvs, queue, wk, nextJob, deliveries, delivered,
                initial, incs, created, counted, call, authVars, limiterVars, capacity>>

\* get_render_job: the job of the caller, or 404.
get_render_job(r, u, j) ==
    /\ Quiet
    /\ req[r].pc = "idle"
    /\ req' = [req EXCEPT ![r] =
                 Responded(JobRequest("get_render_job", u),
                           IF OwnJob(u, j) THEN JobResponse(200, j, jobs[j])
                                           ELSE JobNotFound)]
    /\ UNCHANGED <<jobs, blobs>>
    /\ JobFrame

\* Creation order of the rows: ids are handed out in the order of the inserts.
\* order_by(RenderJob.created_at.desc()): the orders the database may return
\* the rows of S in. created_at is the only sort key, so rows inserted at one
\* reading of the clock come in either order, query by query.
RECURSIVE NewestFirst(_)
NewestFirst(S) ==
    IF S = {} THEN {<<>>}
    ELSE UNION {{<<j>> \o rest : rest \in NewestFirst(S \ {j})} :
                  j \in {x \in S : \A y \in S :
                                      jobs[y].created_at <= jobs[x].created_at}}

\* offset((page - 1) * per_page).limit(per_page) on the rows in seq.
Paged(seq, page, per_page) ==
    LET first == (page - 1) * per_page + 1
        last == IF page * per_page < Len(seq) THEN page * per_page ELSE Len(seq)
    IN IF first > last THEN <<>> ELSE SubSeq(seq, first, last)

\* The rows list_render_jobs selects for user u under the two filters.
Listed(u, cv_id, status_filter) ==
    {j \in DOMAIN jobs : /\ jobs[j].user_id = u
                         /\ IsSet(cv_id) => jobs[j].cv_id = Get(cv_id)
                         /\ IsSet(status_filter) => jobs[j].status = Get(status_filter)}

\* The query parameters list_render_jobs is called with.
ListPages == {1, 2}
ListPerPage == {1, 2}
ListCvFilters == {None, Some("c1")}
ListStatusFilters == {None, Some(COMPLETED)}

\* list_render_jobs: the count query, then one page of the rows, newest first.
list_render_jobs(r, u, page, per_page, cv_id, status_filter) ==
    /\ Quiet
    /\ req[r].pc = "idle"
    /\ LET rows == Listed(u, cv_id, status_filter)
       IN \E ordered \in NewestFirst(rows) :
            LET ids == Paged(ordered, page, per_page)
            IN req' = [req EXCEPT ![r] =
                         Responded(JobRequest("list_render_jobs", u),
                                   Some([code |-> 200, job |-> None, detail |-> "",
                                         items |-> [i \in DOMAIN ids |->
                                                      [id |-> ids[i],
                                                       cv_id |-> jobs[ids[i]].cv_id,
                                                       status |-> jobs[ids[i]].status,
                                                       created_at |-> jobs[ids[i]].created_at]],
                                         total |-> Cardinality(rows), page |-> page,
                                         per_page |-> per_page]))]
    /\ UNCHANGED <<jobs, blobs>>
    /\ JobFrame

\* content_types.get(job.output_format, "application/octet-stream")
ContentType(output_format) ==
    CASE output_format = "pdf" -> "application/pdf"
      [] output_format = "png" -> "image/png"
      [] output_format = "html" -> "text/html"
      [] output_format = "markdown" -> "text/markdown"
      [] OTHER -> "application/octet-stream"

\* download_render_output without the check of the status.
download_render_output_ungated(r, u, j) ==
    /\ Quiet
    /\ req[r].pc = "idle"
    /\ LET answer ==
             IF ~OwnJob(u, j) THEN JobNotFound
             ELSE IF ~IsSet(jobs[j].output_path)
             THEN Response(404, None, "Output file not found")
             ELSE LET got == local_get(blobs, Get(jobs[j].output_path))
                  IN IF ~IsSet(got.result)
                     THEN Response(404, None, "Output file not found in storage")
                     ELSE Some([code |-> 200, job |-> None, detail |-> "",
                                content |-> Get(got.result),
                                media_type |-> ContentType(jobs[j].output_format)])
       IN req' = [req EXCEPT ![r] =
                    Responded(JobRequest("download_render_output", u), answer)]
    /\ UNCHANGED <<jobs, blobs>>
    /\ JobFrame

\* download_render_output: 404 for a job that is not the caller's, 400 unless
\* the job is COMPLETED, 404 when no output is recorded or stored, else the
\* bytes read from the blob store.
download_render_output(r, u, j) ==
    /\ Quiet
    /\ req[r].pc = "idle"
    /\ LET answer ==
             IF ~OwnJob(u, j) THEN JobNotFound
             ELSE IF jobs[j].status # COMPLETED
             THEN Response(400, None, "Render job is not completed (status: "
                                          \o jobs[j].status \o ")")
             ELSE IF ~IsSet(jobs[j].output_path)
             THEN Response(404, None, "Output file not found")
             ELSE LET got == local_get(blobs, Get(jobs[j].output_path))
                  IN IF ~IsSet(got.result)
                     THEN Response(404, None, "Output file not found in storage")
                     ELSE Some([code |-> 200, job |-> None, detail |-> "",
                                content |-> Get(got.result),
                                media_type |-> ContentType(jobs[j].output_format)])
       IN req' = [req EXCEPT ![r] =
                    Responded(JobRequest("download_render_output", u), answer)]
    /\ UNCHANGED <<jobs, blobs>>
    /\ JobFrame

\* delete_render_job: 404 for a job that is not the caller's; else the output
\* file is deleted when output_path is set, whatever delete returns, and the
\* row is deleted and the deletion committed.
delete_render_job(r, u, j) ==
    /\ Quiet
    /\ req[r].pc = "idle"
    /\ IF ~OwnJob(u, j)
       THEN /\ req' = [req EXCEPT ![r] =
                         Responded(JobRequest("delete_render_job", u), JobNotFound)]
            /\ UNCHANGED <<jobs, blobs>>
       ELSE /\ blobs' = IF IsSet(jobs[j].output_path)
                        THEN local_delete(blobs, Get(jobs[j].output_path)).store
                        ELSE blobs
            /\ jobs' = [k \in DOMAIN jobs \ {j} |-> jobs[k]]
            /\ req' = [req EXCEPT ![r] =
                         Responded(JobRequest("delete_render_job", u),
                                   Response(200, None, "Render job deleted successfully"))]
    /\ JobFrame

\* ------------------------------------ routers/users.py: account deletion
\* The objects the store holds under renders/<user_id>/.
UserFiles(store, user_id) ==
    {p \in DOMAIN store :
        \E c \in Cvs, j \in JobIds, f \in OutputFormat :
           p = _generate_path(user_id, c, j, "cv." \o Lower(f))}

\* FileService.cleanup_user_files: the store it leaves. The directory of the
\* user is removed when the backend is a LocalStorageBackend; for any other
\* backend nothing is done.
cleanup_user_files(b, store, user_id) ==
    IF b = "local"
    THEN [p \in DOMAIN store \ UserFiles(store, user_id) |-> store[p]]
    ELSE store

\* delete_my_account up to its commit: the files of the caller are cleaned up.
delete_my_account(r, u, b) ==
    /\ Quiet
    /\ req[r].pc = "idle"
    /\ u \in DOMAIN users
    /\ blobs' = cleanup_user_files(b, blobs, u)
    /\ req' = [req EXCEPT ![r] =
                 [JobRequest("delete_my_account", u) EXCEPT !.pc = "cleaned"]]
    /\ UNCHANGED jobs
    /\ JobFrame

\* delete_user up to its commit: 400 for the caller's own id, 404 for an id
\* without a row, else the files of the user are cleaned up. The request slot
\* keeps the id of the account to delete in its user field.
delete_user(r, admin, user_id, b) ==
    /\ Quiet
    /\ req[r].pc = "idle"
    /\ admin \in DOMAIN users
    /\ IF user_id = admin
       THEN /\ req' = [req EXCEPT ![r] =
                         Responded(JobRequest("delete_user", user_id),
                                   Response(400, None,
                                            "Cannot delete your own account via admin API"))]
            /\ UNCHANGED blobs
       ELSE IF user_id \notin DOMAIN users
       THEN /\ req' = [req EXCEPT ![r] =
                         Responded(JobRequest("delete_user", user_id),
                                   Response(404, None, "User not found"))]
            /\ UNCHANGED blobs
       ELSE /\ blobs' = cleanup_user_files(b, blobs, user_id)
            /\ req' = [req EXCEPT ![r] =
                         [JobRequest("delete_user", user_id) EXCEPT !.pc = "cleaned"]]
    /\ UNCHANGED jobs
    /\ JobFrame

\* db.delete(user) and the commit of both handlers: the row of the user goes,
\* and by the ORM cascades the user's CVs and their render jobs. The commit
\* raises when the row is already gone.
DeleteAccountCommit(r) ==
    /\ Quiet
    /\ req[r].pc = "cleaned"
    /\ LET u == req[r].user
           gone == {c \in cvs : CvOwner(c) = u}
       IN IF u \notin DOMAIN users
          THEN /\ req' = [req EXCEPT ![r] =
                            Responded(req[r], Response(500, None, "StaleDataError"))]
               /\ UNCHANGED <<users, cvs, jobs>>
          ELSE /\ users' = [k \in DOMAIN users \ {u} |-> users[k]]
               /\ cvs' = cvs \ gone
               /\ jobs' = [j \in {k \in DOMAIN jobs : jobs[k].cv_id \notin gone} |-> jobs[j]]
               /\ req' = [req EXCEPT ![r] =
                            Responded(req[r],
                                      Response(200, None,
                                               IF req[r].endpoint = "delete_user"
                                               THEN "User deleted successfully"
                                               ELSE "Account deleted successfully"))]
    /\ UNCHANGED <<blobs, queue, wk, nextJob, deliveries, delivered,
                   initial, incs, created, counted,
                   call, authVars, limiterVars, capacity>>

\* Renders of one user through the queue and one worker, and the deletion of
\* accounts by their owner or by the other user as administrator.
AccountNext ==
    \/ \E c \in Cvs : Admit("r1", "u1", c, "pdf", "render_cv")
    \/ CreateJob("r1")
    \/ IncrementCount("r1")
    \/ EnqueueOk("r1")
    \/ \E r \in Reqs : ReqReturn(r)
    \/ \E j \in JobIds : WorkerBegin("w1", j)
    \/ WorkerSave("w1")
    \/ WorkerComplete("w1")
    \/ WorkerFail("w1")
    \/ WorkerCommitFails("w1")
    \/ \E b \in Backends : delete_my_account("r2", "u1", b)
    \/ \E u \in Users, b \in Backends : delete_user("r2", "u2", u, b)
    \/ DeleteAccountCommit("r2")

\* The caller has rendered nothing this month.
AccountInit == Init /\ initial["u1"] = 0

AccountSpec == AccountInit /\ [][AccountNext]_vars

\* ------------------------------------------- the blob store by itself
\* Number of objects the store holds when it is exercised by itself.
MaxObjects == 1

\* The job whose outputs are stored, and the paths they are stored under.
StoreJobs == {"j1"}

StorePaths ==
    {save_render_output(<<>>, CvOwner(c), c, j, f).path :
        c \in Cvs, j \in StoreJobs, f \in OutputFormat}

StoreFrame ==
    UNCHANGED <<users, cvs, jobs, queue, req, wk, nextJob, deliveries, delivered,
                initial, incs, created, counted, authVars, limiterVars, capacity>>

\* FileService.save_render_output on the configured backend.
StoreSave(b, content, c, j, f) ==
    LET out == save_render_output(content, CvOwner(c), c, j, f)
    IN /\ out.path \in DOMAIN blobs \/ Cardinality(DOMAIN blobs) < MaxObjects
       /\ blobs' = save(blobs, content, out.path)
       /\ call' = [backend |-> b, op |-> "save_render_output", path |-> out.path,
                   args |-> <<CvOwner(c), c, j, f>>, held |-> out.path \in DOMAIN blobs,
                   raised |-> FALSE, result |-> Some(out.size)]
       /\ StoreFrame

\* A call of get, exists or delete whose outcome is out.
StoreCall(b, op, path, out) ==
    /\ blobs' = out.store
    /\ call' = [backend |-> b, op |-> op, path |-> path, args |-> <<>>,
                held |-> path \in DOMAIN blobs, raised |-> out.raised,
                result |-> out.result]
    /\ StoreFrame

StoreGet(b, path) ==
    StoreCall(b, "get", path, IF b = "s3" THEN s3_get(blobs, path)
                                          ELSE local_get(blobs, path))

StoreExists(b, path) ==
    StoreCall(b, "exists", path, IF b = "s3" THEN s3_exists(blobs, path)
                                             ELSE local_exists(blobs, path))

StoreDelete(b, path) ==
    StoreCall(b, "delete", path, IF b = "s3" THEN s3_delete(blobs, path)
                                             ELSE local_delete(blobs, path))

StoreNext ==
    \/ \E b \in Backends, content \in Contents, c \in Cvs, j \in StoreJobs, f \in OutputFormat :
         StoreSave(b, content, c, j, f)
    \/ \E b \in Backends, path \in StorePaths : StoreGet(b, path)
    \/ \E b \in Backends, path \in StorePaths : StoreExists(b, path)
    \/ \E b \in Backends, path \in StorePaths : StoreDelete(b, path)

\* The store starts empty; the rows of the relational store play no part.
StoreInit == Init /\ initial["u1"] = 0

StoreSpec == StoreInit /\ [][StoreNext]_vars

\* ------------------------------------------------------------------ spec
Next ==
    \/ \E r \in Reqs, u \in Callers, c \in Cvs, fmt \in RequestFormats, ep \in Endpoints :
         Admit(r, u, c, fmt, ep)
    \/ \E r \in Reqs : CreateJob(r)
    \/ \E r \in Reqs : IncrementCount(r)
    \/ \E r \in Reqs : EnqueueOk(r)
    \/ \E r \in Reqs : InlineBegin(r)
    \/ \E r \in Reqs : InlineSave(r)
    \/ \E r \in Reqs : InlineComplete(r)
    \/ \E r \in Reqs : InlineFail(r)
    \/ \E r \in Reqs : ReqReturn(r)
    \/ \E r \in Reqs : ReqCrash(r)
    \/ \E w \in Workers, j \in JobIds : WorkerBegin(w, j)
    \/ \E w \in Workers : WorkerSave(w)
    \/ \E w \in Workers : WorkerComplete(w)
    \/ \E w \in Workers : WorkerFail(w)
    \/ \E w \in Workers : WorkerCommitFails(w)
    \/ \E w \in Workers : WorkerCrash(w)
    \/ \E j \in JobIds : Redeliver(j)
    \/ \E u \in Callers, c \in Cvs : delete_cv(u, c)

Spec == Init /\ [][Next]_vars

\* ------------------------------------------- the job endpoints at work
\* One render request (on r1) and one worker (w1) at a time, and beside them
\* the job endpoints, called (on r2) by either user for any job id.
JobsNext ==
    \/ \E u \in Callers, c \in Cvs, fmt \in RequestFormats, ep \in Endpoints :
         Admit("r1", u, c, fmt, ep)
    \/ CreateJob("r1")
    \/ IncrementCount("r1")
    \/ EnqueueOk("r1")
    \/ InlineBegin("r1")
    \/ InlineSave("r1")
    \/ InlineComplete("r1")
    \/ InlineFail("r1")
    \/ \E r \in Reqs : ReqReturn(r)
    \/ ReqCrash("r1")
    \/ \E j \in JobIds : WorkerBegin("w1", j)
    \/ WorkerSave("w1")
    \/ WorkerComplete("w1")
    \/ WorkerFail("w1")
    \/ WorkerCommitFails("w1")
    \/ WorkerCrash("w1")
    \/ \E j \in JobIds : Redeliver(j)
    \/ \E u \in Callers, c \in Cvs : delete_cv(u, c)
    \/ \E u \in Users, j \in JobIds : get_render_job("r2", u, j)
    \/ \E u \in Users, page \in ListPages, per_page \in ListPerPage,
          cv_id \in ListCvFilters, status_filter \in ListStatusFilters :
         list_render_jobs("r2", u, page, per_page, cv_id, status_filter)
    \/ \E u \in Users, j \in JobIds : download_render_output("r2", u, j)
    \/ \E u \in Users, j \in JobIds : delete_render_job("r2", u, j)

\* The caller has rendered nothing this month.
JobsInit == Init /\ initial["u1"] = 0

JobsSpec == JobsInit /\ [][JobsNext]_vars

\* ------------------------------------- executions that run to their end
\* The steps of the one request at work, after its admission.
RequestStep ==
    \/ CreateJob("r1")
    \/ IncrementCount("r1")
    \/ EnqueueOk("r1")
    \/ InlineBegin("r1")
    \/ InlineSave("r1")
    \/ InlineComplete("r1")
    \/ InlineFail("r1")
    \/ ReqReturn("r1")

\* The steps of the one worker at work.
WorkerStep ==
    \/ \E j \in JobIds : WorkerBegin("w1", j)
    \/ WorkerSave("w1")
    \/ WorkerComplete("w1")
    \/ WorkerFail("w1")

\* No process dies, no commit fails and the queue delivers each id once.
LiveNext ==
    \/ \E u \in Callers, c \in Cvs, fmt \in RequestFormats, ep \in Endpoints :
         Admit("r1", u, c, fmt, ep)
    \/ RequestStep
    \/ WorkerStep
    \/ \E u \in Callers, c \in Cvs : delete_cv(u, c)

\* The handler of a request goes on until it has answered, and the worker,
\* a process of its own, takes an id whenever the queue holds one and goes on
\* until its last commit.
LiveSpec ==
    JobsInit /\ [][LiveNext]_vars /\ WF_vars(RequestStep) /\ SF_vars(WorkerStep)

\* ------------------------------------------------- auth.py, routers/auth.py
\* What the steps of authentication leave alone.
AuthFrame ==
    UNCHANGED <<users, cvs, jobs, blobs, queue, req, wk, nextJob, deliveries,
                delivered, initial, incs, created, counted, call, limiterVars, capacity>>

\* select(RefreshToken).where(token_hash == ..., is_revoked.is_(False))
ValidToken(t) == t \in DOMAIN tokens /\ ~tokens[t].is_revoked

\* refresh_access_token up to get_user_by_id: the token row is selected by
\* its hash among the rows that are not revoked; an expired token is revoked
\* and refused.
RefreshLookup(x, t) ==
    /\ rt[x].pc = "idle"
    /\ IF ~ValidToken(t)
       THEN /\ rt' = [rt EXCEPT ![x] = [IdleRefresh EXCEPT !.pc = "answered",
                                           !.token = t, !.code = 401]]
            /\ UNCHANGED tokens
       ELSE IF tokens[t].expired
       THEN /\ tokens' = [tokens EXCEPT ![t].is_revoked = TRUE]
            /\ rt' = [rt EXCEPT ![x] = [IdleRefresh EXCEPT !.pc = "answered",
                                           !.token = t, !.code = 401]]
       ELSE /\ rt' = [rt EXCEPT ![x] = [IdleRefresh EXCEPT !.pc = "found", !.token = t]]
            /\ UNCHANGED tokens
    /\ UNCHANGED <<refreshed, spent>>
    /\ AuthFrame

\* "Revoke old token": db_token.is_revoked = True, commit.
RefreshRevoke(x) ==
    /\ rt[x].pc = "found"
    /\ tokens' = [tokens EXCEPT ![rt[x].token].is_revoked = TRUE]
    /\ rt' = [rt EXCEPT ![x].pc = "revoked"]
    /\ UNCHANGED <<refreshed, spent>>
    /\ AuthFrame

\* create_token_pair: a new refresh token row for the user of the old one,
\* and the answer of refresh_token.
RefreshIssue(x) ==
    /\ rt[x].pc = "revoked"
    /\ Cardinality(DOMAIN tokens) < MaxTokens
    /\ LET old == rt[x].token
           new == "t" \o ToString(Cardinality(DOMAIN tokens) + 1)
       IN /\ tokens' = [t \in DOMAIN tokens \cup {new} |->
                          IF t = new THEN [user_id |-> tokens[old].user_id,
                                           is_revoked |-> FALSE, expired |-> FALSE]
                                     ELSE tokens[t]]
          /\ rt' = [rt EXCEPT ![x].pc = "answered", ![x].code = 200, ![x].issued = new]
          /\ refreshed' = [refreshed EXCEPT ![old] = @ + 1]
          /\ spent' = spent \cup {old}
    /\ AuthFrame

\* The client has the answer of refresh_token.
RefreshReturn(x) ==
    /\ rt[x].pc = "answered"
    /\ rt' = [rt EXCEPT ![x] = IdleRefresh]
    /\ UNCHANGED <<tokens, refreshed, spent>>
    /\ AuthFrame

\* logout: revoke_refresh_token on the token presented.
logout(t) ==
    /\ t \in DOMAIN tokens
    /\ tokens' = [tokens EXCEPT ![t].is_revoked = TRUE]
    /\ spent' = spent \cup {t}
    /\ UNCHANGED <<rt, refreshed>>
    /\ AuthFrame

\* revoke_all_user_tokens: the rows after every token of the user that is not
\* revoked has been revoked.
revoke_all_user_tokens(u) ==
    [t \in DOMAIN tokens |->
        IF tokens[t].user_id = u THEN [tokens[t] EXCEPT !.is_revoked = TRUE]
                                 ELSE tokens[t]]

\* logout_all by user u.
logout_all(u) ==
    /\ tokens' = revoke_all_user_tokens(u)
    /\ spent' = spent \cup {t \in DOMAIN tokens : tokens[t].user_id = u}
    /\ UNCHANGED <<rt, refreshed>>
    /\ AuthFrame

\* change_password by user u with the right current password: the new hash
\* is committed, then every token of the user is revoked.
change_password(u) ==
    /\ tokens' = revoke_all_user_tokens(u)
    /\ spent' = spent \cup {t \in DOMAIN tokens : tokens[t].user_id = u}
    /\ UNCHANGED <<rt, refreshed>>
    /\ AuthFrame

\* Time passes expires_at of a token.
Expire(t) ==
    /\ t \in DOMAIN tokens
    /\ ~tokens[t].expired
    /\ tokens' = [tokens EXCEPT ![t].expired = TRUE]
    /\ UNCHANGED <<rt, refreshed, spent>>
    /\ AuthFrame

AuthNext ==
    \/ \E x \in RefreshSlots, t \in TokenIds : RefreshLookup(x, t)
    \/ \E x \in RefreshSlots : RefreshRevoke(x)
    \/ \E x \in RefreshSlots : RefreshIssue(x)
    \/ \E x \in RefreshSlots : RefreshReturn(x)
    \/ \E t \in TokenIds : logout(t)
    \/ \E u \in Callers : logout_all(u)
    \/ \E u \in Callers : change_password(u)
    \/ \E t \in TokenIds : Expire(t)

AuthSpec == Init /\ [][AuthNext]_vars

\* ---------------------------------------------------------- middleware.py
\* The limit RateLimitMiddleware is constructed with. settings.rate_limit_per_minute
\* is 60; dispatch treats every value alike, and a small one lets a client
\* reach it.
requests_per_minute == 2

\* Requests the clients send in a run, and the time a run lasts, in seconds.
MaxRequests == 4
MaxClock == 90

\* The paths requested: one that starts with /api/v1/health, one that does not.
Paths == {"/api/v1/health/ready", "/api/v1/render/jobs"}

\* The requests dispatch has handled so far.
RECURSIVE Dispatched(_)
Dispatched(cs) ==
    IF cs = {} THEN 0
    ELSE LET c == CHOOSE k \in cs : TRUE
         IN Len(forwarded[c]) + limited[c] + Dispatched(cs \ {c})

\* request.url.path.startswith("/api/v1/health")
IsHealthCheck(path) == path \in {"/api/v1/health", "/api/v1/health/ready"} \cap Paths

\* [ts for ts in self.requests[client_ip] if ts > window_start]
Cleaned(c, window_start) ==
    IF c \in DOMAIN requests
    THEN SelectSeq(requests[c], LAMBDA ts : ts > window_start)
    ELSE <<>>

\* self.requests with the list of client c replaced.
WithRequests(c, list) ==
    [k \in DOMAIN requests \cup {c} |-> IF k = c THEN list ELSE requests[k]]

LimiterFrame ==
    UNCHANGED <<users, cvs, jobs, blobs, queue, req, wk, nextJob, deliveries,
                delivered, initial, incs, created, counted, call, authVars, capacity>>

\* dispatch refusing a request only when the window holds more than the limit.
dispatch_one_more(c, path) ==
    /\ Dispatched(Clients) < MaxRequests
    /\ IF IsHealthCheck(path)
       THEN /\ forwarded' = [forwarded EXCEPT ![c] = Append(@, [at |-> clock, path |-> path])]
            /\ UNCHANGED <<requests, limited>>
       ELSE LET now == clock
                window_start == now - 60
                cleaned == Cleaned(c, window_start)
            IN IF Len(cleaned) > requests_per_minute
               THEN /\ requests' = WithRequests(c, cleaned)
                    /\ limited' = [limited EXCEPT ![c] = @ + 1]
                    /\ UNCHANGED forwarded
               ELSE /\ requests' = WithRequests(c, Append(cleaned, now))
                    /\ forwarded' = [forwarded EXCEPT ![c] =
                                       Append(@, [at |-> now, path |-> path])]
                    /\ UNCHANGED limited
    /\ UNCHANGED clock
    /\ LimiterFrame

\* RateLimitMiddleware.dispatch for a request of client c: a health check is
\* passed on; any other request is refused with 429 when the client's list,
\* cleaned of the times not after now - 60, holds requests_per_minute times,
\* and is otherwise recorded and passed on.
dispatch(c, path) ==
    /\ Dispatched(Clients) < MaxRequests
    /\ IF IsHealthCheck(path)
       THEN /\ forwarded' = [forwarded EXCEPT ![c] = Append(@, [at |-> clock, path |-> path])]
            /\ UNCHANGED <<requests, limited>>
       ELSE LET now == clock
                window_start == now - 60
                cleaned == Cleaned(c, window_start)
            IN IF Len(cleaned) >= requests_per_minute
               THEN /\ requests' = WithRequests(c, cleaned)
                    /\ limited' = [limited EXCEPT ![c] = @ + 1]
                    /\ UNCHANGED forwarded
               ELSE /\ requests' = WithRequests(c, Append(cleaned, now))
                    /\ forwarded' = [forwarded EXCEPT ![c] =
                                       Append(@, [at |-> now, path |-> path])]
                    /\ UNCHANGED limited
    /\ UNCHANGED clock
    /\ LimiterFrame

\* Time passes between two requests, half a window at a time.
Tick(seconds) ==
    /\ clock + seconds <= MaxClock
    /\ clock' = clock + seconds
    /\ UNCHANGED <<requests, forwarded, limited>>
    /\ LimiterFrame

LimiterNext ==
    \/ \E c \in Clients, path \in Paths : dispatch(c, path)
    \/ \E seconds \in {30} : Tick(seconds)

\* No request has been seen; the accounts play no part.
LimiterInit == Init /\ initial["u1"] = 0

LimiterSpec == LimiterInit /\ [][LimiterNext]_vars

\* ------------------------------------------------ listing while time passes
\* Jobs are created by one request after the other, the clock moves between
\* the inserts or stands still, and two requests read pages of the list.
ListNext ==
    \/ \E c \in Cvs : Admit("r1", "u1", c, "pdf", "render_cv")
    \/ CreateJob("r1")
    \/ IncrementCount("r1")
    \/ EnqueueOk("r1")
    \/ \E r \in Reqs : ReqReturn(r)
    \/ \E seconds \in {30} : Tick(seconds)
    \/ \E r \in Reqs, page \in ListPages, per_page \in ListPerPage,
          cv_id \in ListCvFilters, status_filter \in ListStatusFilters :
         list_render_jobs(r, "u1", page, per_page, cv_id, status_filter)

ListSpec == JobsInit /\ [][ListNext]_vars

\* ------------------------------------------------ admissions one after another
\* Two requests of one user render again and again, with no worker at work;
\* the run creates one job more than the others do, so that one request can
\* be overtaken twice between its admission and its commit.
CountNext ==
    \/ \E r \in Reqs : Admit(r, "u1", "c1", "pdf", "render_cv")
    \/ \E r \in Reqs : CreateJob(r)
    \/ \E r \in Reqs : IncrementCount(r)
    \/ \E r \in Reqs : EnqueueOk(r)
    \/ \E r \in Reqs : ReqReturn(r)

\* A run that creates one job more.
CountInit == Start(MaxJobs + 1)

CountSpec == CountInit /\ [][CountNext]_vars

\* ---------------------------------------------------------------- claims
Terminal == {COMPLETED, FAILED}

\* Position of a status in PENDING, PROCESSING, (COMPLETED|FAILED).
Rank(status) ==
    CASE status = PENDING -> 0
      [] status = PROCESSING -> 1
      [] OTHER -> 2

OutputsPopulated(row) ==
    IsSet(row.output_path) /\ IsSet(row.output_url) /\ IsSet(row.file_size_bytes)

OutputsAbsent(row) ==
    ~IsSet(row.output_path) /\ ~IsSet(row.output_url) /\ ~IsSet(row.file_size_bytes)

\* C1: the status of a job record only moves forward along PENDING, PROCESSING,
\* (COMPLETED|FAILED): in every step the status of every job that stays in the
\* store keeps or raises its position, and a COMPLETED or FAILED status stays
\* what it is.
C1_StatusOnlyMovesForward ==
    [][\A j \in DOMAIN jobs \cap DOMAIN jobs' :
          /\ Rank(jobs'[j].status) >= Rank(jobs[j].status)
          /\ jobs[j].status \in Terminal => jobs'[j].status = jobs[j].status]_vars

\* C2: a worker that is handed a job whose status is already COMPLETED or
\* FAILED changes no field of the job record and does not go on to the
\* converter and the blob store: it is idle again in the next state.
C2_ExecuteOnTerminalIsNoOp ==
    [][\A w \in Workers, j \in DOMAIN jobs :
          (WorkerBegin(w, j) /\ jobs[j].status \in Terminal)
              => /\ jobs' = jobs
                 /\ wk'[w].pc = "idle"]_vars

\* C3: in every committed state the three output fields of every job record
\* are populated when its status is COMPLETED and absent otherwise.
C3_OutputsIffCompleted ==
    \A j \in DOMAIN jobs :
        IF jobs[j].status = COMPLETED THEN OutputsPopulated(jobs[j])
                                      ELSE OutputsAbsent(jobs[j])

\* C4: in every committed state error_message of every job record is
\* populated exactly when its status is FAILED.
C4_ErrorMessageIffFailed ==
    \A j \in DOMAIN jobs : IsSet(jobs[j].error_message) <=> jobs[j].status = FAILED

\* The limits as the claim C5 lists them.
C5_Limit(tier) ==
    CASE tier = FREE -> 10
      [] tier = PRO -> 100
      [] tier = ENTERPRISE -> 1000

C5_Rejected(r) ==
    /\ req[r].pc = "responded"
    /\ IsSet(req[r].response)
    /\ Get(req[r].response).code = 429

\* C5: a render request is answered 429 exactly when the user's committed
\* renders_this_month is at or above the limit of the user's tier (FREE 10,
\* PRO 100, ENTERPRISE 1000) when the request arrives; the rejecting step
\* creates no job, enqueues nothing and leaves the users rows unchanged; and a
\* request that arrived at one below the limit commits the limit as the counter.
C5_RejectedIffAtLimit ==
    [][\A r \in Reqs :
          /\ (req[r].pc = "idle" /\ req'[r].pc # "idle")
                => /\ C5_Rejected(r)' <=>
                        users[req'[r].user].renders_this_month
                            >= C5_Limit(users[req'[r].user].tier)
                   /\ C5_Rejected(r)' =>
                        /\ jobs' = jobs /\ queue' = queue /\ users' = users
                        /\ nextJob' = nextJob
          /\ (IncrementCount(r)
                /\ req[r].renders_this_month + 1 = C5_Limit(users[req[r].user].tier))
                => users'[req[r].user].renders_this_month
                       = C5_Limit(users[req[r].user].tier)]_vars

\* A request was admitted at 9 and made the counter 10, and a later one is
\* answered 429 at that counter.
C5_Witness ==
    /\ users["u1"].tier = FREE
    /\ initial["u1"] = 9
    /\ incs["u1"] = 1
    /\ users["u1"].renders_this_month = 10
    /\ \E r \in Reqs : C5_Rejected(r)

\* C6: the committed counter of every user equals its initial value plus the
\* number of admissions that committed their increment.
C6_CounterCountsAdmissions ==
    \A u \in Users : users[u].renders_this_month = initial[u] + incs[u]

\* C7: the number of jobs admitted for a user never exceeds the limit of the
\* user's tier minus the counter's initial value.
C7_AdmissionsWithinLimit ==
    \A u \in Users :
        LET room == render_limit(users[u].tier) - initial[u]
        IN created[u] <= IF room > 0 THEN room ELSE 0

\* C8: no committed state holds a render_jobs row created by an admission
\* whose counter increment is not committed.
C8_JobAndIncrementTogether ==
    \A j \in DOMAIN jobs : j \in counted

\* The answer a render_cv request has sent carries a job with one of the statuses.
C9_AnswersJob(r, statuses) ==
    /\ IsSet(req[r].response)
    /\ Get(req[r].response).code = 202
    /\ IsSet(Get(req[r].response).job)
    /\ Get(Get(req[r].response).job).status \in statuses

\* C9 as stated: every render_cv request whose enqueue failed ran
\* process_render_job in the request and answered with the job, COMPLETED or
\* FAILED; every one whose enqueue succeeded answered with the PENDING job and
\* ran nothing in the request; nothing ran in a request whose enqueue did not fail.
C9_FallbackAnswersTerminalJob ==
    \A r \in Reqs :
        (req[r].pc = "responded" /\ req[r].endpoint = "render_cv")
            => /\ req[r].enqueue = "failed" => req[r].inline /\ C9_AnswersJob(r, Terminal)
               /\ req[r].enqueue = "ok" => ~req[r].inline /\ C9_AnswersJob(r, {PENDING})
               /\ req[r].inline => req[r].enqueue = "failed"

\* C9 amended: as stated, except that a request whose job row was deleted while
\* it ran answers 500 without a job; it answers with the COMPLETED or FAILED
\* job exactly when the row is still there at the step that answers.
C9_FallbackAnswersTerminalJobUnlessDeleted ==
    [][\A r \in Reqs :
          (req[r].endpoint = "render_cv" /\ req[r].pc \in {"counted", "processing", "saved"}
              /\ req'[r].pc = "responded")
            => /\ req'[r].enqueue \in {"ok", "failed"}
               /\ req'[r].inline <=> req'[r].enqueue = "failed"
               /\ req'[r].enqueue = "ok" =>
                    /\ C9_AnswersJob(r, {PENDING})'
                    /\ jobs' = jobs /\ blobs' = blobs
                    /\ req[r].job_id \in queue'
               /\ req'[r].enqueue = "failed" =>
                    /\ req[r].job_id \notin queue'
                    /\ IF req[r].job_id \in DOMAIN jobs
                       THEN /\ C9_AnswersJob(r, Terminal)'
                            /\ Get(Get(req'[r].response).job).status
                                   = jobs'[req[r].job_id].status
                       ELSE /\ Get(req'[r].response).code = 500
                            /\ ~IsSet(Get(req'[r].response).job)]_vars

\* A render_cv request whose enqueue failed has answered with its COMPLETED job.
C9_Witness ==
    \E r \in Reqs :
        /\ req[r].pc = "responded"
        /\ req[r].endpoint = "render_cv"
        /\ req[r].enqueue = "failed"
        /\ req[r].inline
        /\ C9_AnswersJob(r, {COMPLETED})

C10_FailedRecord(row) ==
    /\ row.status = FAILED
    /\ IsSet(row.error_message)
    /\ Get(row.error_message) \in RenderErrors
    /\ IsSet(row.completed_at)
    /\ ~IsSet(row.output_path)

\* C10: when an execution that found its job PENDING ends in the except
\* block, the job record it leaves is FAILED, holds the error's message and
\* completed_at, and has no output_path.
C10_RenderErrorLeavesFailedRecord ==
    [][/\ \A w \in Workers :
            (WorkerFail(w) /\ wk[w].loaded_status = PENDING /\ wk[w].job_id \in DOMAIN jobs)
                => C10_FailedRecord(jobs'[wk[w].job_id])
       /\ \A r \in Reqs :
            (InlineFail(r) /\ Get(req[r].job).status = PROCESSING
                /\ req[r].job_id \in DOMAIN jobs)
                => C10_FailedRecord(jobs'[req[r].job_id])]_vars

\* The path of the claim C12 for format f, with the extension ext.
C12_Path(args, ext) ==
    "renders/" \o args[1] \o "/" \o args[2] \o "/" \o args[3] \o "/cv." \o ext

\* C12 as stated: save_render_output stores the artifact of every format under
\* renders/{user_id}/{document_id}/{job_id}/cv.{ext}, ext being pdf, png, html
\* and, for markdown, md.
C12_PathConventionMd ==
    call.op = "save_render_output"
        => call.path = C12_Path(call.args, IF call.args[4] = "markdown" THEN "md"
                                                                         ELSE call.args[4])

\* C12 amended: the extension is the format's value itself, markdown included,
\* and the object is in the store at that path after the call.
C12_PathConvention ==
    call.op = "save_render_output"
        => /\ call.args[4] \in OutputFormat
           /\ call.path = C12_Path(call.args, call.args[4])
           /\ call.path \in DOMAIN blobs

\* A markdown artifact has been saved.
C12_Witness ==
    /\ call.op = "save_render_output"
    /\ call.args[4] = "markdown"
    /\ call.path = "renders/u1/c1/j1/cv.markdown"
    /\ call.path \in DOMAIN blobs

\* C14: get, exists and delete of either backend on a path that holds no
\* object do not raise, return None, False and False, and leave the store as
\* it was.
C14_AbsentPathIsHarmless ==
    [][(call'.op \in {"get", "exists", "delete"} /\ ~call'.held)
          => /\ ~call'.raised
             /\ call'.result = IF call'.op = "get" THEN None ELSE Some(FALSE)
             /\ blobs' = blobs]_vars

\* What a worker that has saved its bytes records, and what a request does.
WorkerOut(w) ==
    LET a == Get(wk[w].args)
    IN save_render_output(wk[w].bytes, a.user_id, a.cv_id, wk[w].job_id, a.output_format)

InlineOut(r) ==
    save_render_output(req[r].bytes, CvOwner(req[r].cv), req[r].cv, req[r].job_id,
                       Get(req[r].job).output_format)

C11_CompletedRecord(j, row, out, bytes, store) ==
    /\ row.status = COMPLETED
    /\ row.output_path = Some(out.path)
    /\ row.output_format = "pdf" =>
          out.path = "renders/" \o row.user_id \o "/" \o row.cv_id \o "/" \o j \o "/cv.pdf"
    /\ row.file_size_bytes = Some(Len(bytes))
    /\ IsSet(row.completed_at)
    /\ ~IsSet(row.error_message)
    /\ out.path \in DOMAIN store
    /\ store[out.path] = bytes

\* C11: when an execution that found its job PENDING commits after the
\* converter and the save succeeded, the job record is COMPLETED with
\* output_path the path the bytes were saved under, file_size_bytes their
\* length, completed_at set and error_message absent, and the blob store
\* holds those bytes at that path.
C11_SuccessLeavesCompletedRecord ==
    [][/\ \A w \in Workers :
            (WorkerComplete(w) /\ wk[w].loaded_status = PENDING
                /\ wk[w].job_id \in DOMAIN jobs)
                => C11_CompletedRecord(wk[w].job_id, jobs'[wk[w].job_id], WorkerOut(w),
                                       wk[w].bytes, blobs')
       /\ \A r \in Reqs :
            (InlineComplete(r) /\ req[r].job_id \in DOMAIN jobs)
                => C11_CompletedRecord(req[r].job_id, jobs'[req[r].job_id], InlineOut(r),
                                       req[r].bytes, blobs')]_vars

\* The storage path as a function of a job's id and the columns user_id,
\* cv_id and output_format of its record.
C13_Path(j, row) ==
    "renders/" \o row.user_id \o "/" \o row.cv_id \o "/" \o j \o "/cv." \o row.output_format

\* The paths at which a step wrote the blob store.
C13_Written == {p \in DOMAIN blobs' : p \notin DOMAIN blobs \/ blobs'[p] # blobs[p]}

\* C13: every execution of a job, in a worker or in a request, saves to the one
\* path that its user, CV, job id and format determine and records that path,
\* so a later execution saves to and records the path an earlier one recorded.
C13_PathIsDeterministic ==
    [][/\ \A w \in Workers :
            LET j == wk[w].job_id
            IN /\ (WorkerSave(w) /\ j \in DOMAIN jobs)
                    => /\ C13_Written \subseteq {C13_Path(j, jobs[j])}
                       /\ C13_Path(j, jobs[j]) \in DOMAIN blobs'
               /\ (WorkerComplete(w) /\ j \in DOMAIN jobs)
                    => /\ jobs'[j].output_path = Some(C13_Path(j, jobs[j]))
                       /\ IsSet(jobs[j].output_path)
                              => jobs'[j].output_path = jobs[j].output_path
       /\ \A r \in Reqs :
            LET j == req[r].job_id
            IN /\ (InlineSave(r) /\ j \in DOMAIN jobs)
                    => /\ C13_Written \subseteq {C13_Path(j, jobs[j])}
                       /\ C13_Path(j, jobs[j]) \in DOMAIN blobs'
               /\ (InlineComplete(r) /\ j \in DOMAIN jobs)
                    => jobs'[j].output_path = Some(C13_Path(j, jobs[j]))]_vars

\* A second execution of a job has saved other bytes at the path the first
\* execution recorded.
C13_Witness ==
    \E w \in Workers :
        /\ wk[w].pc = "saved"
        /\ wk[w].loaded_status = COMPLETED
        /\ wk[w].job_id \in DOMAIN jobs
        /\ IsSet(jobs[wk[w].job_id].output_path)
        /\ jobs[wk[w].job_id].file_size_bytes # Some(Len(wk[w].bytes))
        /\ blobs[Get(jobs[wk[w].job_id].output_path)] = wk[w].bytes

\* C15: when an execution that began while the job was not terminal commits
\* its terminal status, the record is that execution's alone: COMPLETED with
\* its output fields and no error_message, or FAILED with an error_message and
\* no output fields, whatever another execution of the job committed before.
C15_LastCommitWins ==
    [][\A w \in Workers :
          LET j == wk[w].job_id
          IN /\ (WorkerComplete(w) /\ wk[w].loaded_status \in {PENDING, PROCESSING}
                    /\ j \in DOMAIN jobs)
                  => /\ jobs'[j].status = COMPLETED
                     /\ jobs'[j].output_path = Some(WorkerOut(w).path)
                     /\ jobs'[j].output_url = Some(WorkerOut(w).url)
                     /\ jobs'[j].file_size_bytes = Some(WorkerOut(w).size)
                     /\ ~IsSet(jobs'[j].error_message)
             /\ (WorkerFail(w) /\ wk[w].loaded_status \in {PENDING, PROCESSING}
                    /\ j \in DOMAIN jobs)
                  => /\ jobs'[j].status = FAILED
                     /\ IsSet(jobs'[j].error_message)
                     /\ OutputsAbsent(jobs'[j])]_vars

\* The fields of a job record that C16 compares.
C16_Fields(row) ==
    [status |-> row.status, output_path |-> row.output_path,
     output_url |-> row.output_url, file_size_bytes |-> row.file_size_bytes,
     error_message |-> row.error_message, started |-> IsSet(row.started_at),
     completed |-> IsSet(row.completed_at)]

\* One state machine for a job record: the record after the first commit of
\* an execution, after a successful one's last commit, after a failed one's.
C16_AfterBegin(row, cvThere) ==
    IF cvThere THEN [row EXCEPT !.status = PROCESSING, !.started_at = Some(0)]
               ELSE [row EXCEPT !.status = FAILED, !.error_message = Some("CV not found")]

C16_AfterSuccess(j, row, bytes) ==
    LET path == "renders/" \o row.user_id \o "/" \o row.cv_id \o "/" \o j \o "/cv."
                    \o row.output_format
    IN [row EXCEPT !.status = COMPLETED, !.output_path = Some(path),
                   !.output_url = Some("/api/v1/files/" \o path),
                   !.file_size_bytes = Some(Len(bytes)), !.completed_at = Some(0)]

C16_AfterFailure(row) ==
    {[row EXCEPT !.status = FAILED, !.error_message = Some(msg), !.completed_at = Some(0)] :
        msg \in RenderErrors}

\* A step of an execution of job j follows the one state machine: begin is
\* whether it is the first commit, cont whether the execution goes on after it.
C16_BeginFollows(j, cont) ==
    /\ C16_Fields(jobs'[j]) = C16_Fields(C16_AfterBegin(jobs[j], jobs[j].cv_id \in cvs))
    /\ cont <=> jobs[j].cv_id \in cvs
    /\ blobs' = blobs

C16_SaveFollows(j, bytes) ==
    /\ jobs' = jobs
    /\ \E path \in DOMAIN blobs' :
          /\ Some(path) = C16_AfterSuccess(j, jobs[j], bytes).output_path
          /\ blobs'[path] = bytes
          /\ \A p \in DOMAIN blobs' \ {path} : p \in DOMAIN blobs /\ blobs'[p] = blobs[p]

C16_SuccessFollows(j, bytes) ==
    /\ C16_Fields(jobs'[j]) = C16_Fields(C16_AfterSuccess(j, jobs[j], bytes))
    /\ blobs' = blobs

C16_FailureFollows(j) ==
    /\ C16_Fields(jobs'[j]) \in {C16_Fields(row) : row \in C16_AfterFailure(jobs[j])}
    /\ blobs' = blobs

C17_FailsDirectly(j, message, idle) ==
    /\ jobs'[j] = [jobs[j] EXCEPT !.status = FAILED, !.error_message = Some(message)]
    /\ blobs' = blobs
    /\ idle

\* C17 as stated: an execution on a job whose CV no longer exists commits
\* FAILED at once with the message "document not found", runs neither the
\* converter nor the blob store, and returns.
C17_MissingDocumentFailsWithDocumentMessage ==
    [][/\ \A w \in Workers, j \in DOMAIN jobs :
            (WorkerBegin(w, j) /\ jobs[j].cv_id \notin cvs)
                => C17_FailsDirectly(j, "document not found", wk'[w].pc = "idle")
       /\ \A r \in Reqs, j \in DOMAIN jobs :
            (InlineBegin(r) /\ req[r].job_id = j /\ jobs[j].cv_id \notin cvs)
                => C17_FailsDirectly(j, "document not found", req'[r].pc = "responded")]_vars

\* C17 amended: the same with the message the code records, "CV not found".
C17_MissingDocumentFailsDirectly ==
    [][/\ \A w \in Workers, j \in DOMAIN jobs :
            (WorkerBegin(w, j) /\ jobs[j].cv_id \notin cvs)
                => C17_FailsDirectly(j, "CV not found", wk'[w].pc = "idle")
       /\ \A r \in Reqs, j \in DOMAIN jobs :
            (InlineBegin(r) /\ req[r].job_id = j /\ jobs[j].cv_id \notin cvs)
                => C17_FailsDirectly(j, "CV not found", req'[r].pc = "responded")]_vars

\* A job whose CV is gone is FAILED with the message and was never PROCESSING.
C17_Witness ==
    \E j \in DOMAIN jobs :
        /\ jobs[j].cv_id \notin cvs
        /\ jobs[j].status = FAILED
        /\ jobs[j].error_message = Some("CV not found")
        /\ ~IsSet(jobs[j].started_at)

\* C18: started_at is set when the status is PROCESSING or COMPLETED,
\* completed_at is set when it is COMPLETED or FAILED, and a PENDING job has
\* neither.
C18_TimestampsFollowStatus ==
    \A j \in DOMAIN jobs :
        /\ jobs[j].status \in {PROCESSING, COMPLETED} => IsSet(jobs[j].started_at)
        /\ jobs[j].status \in {COMPLETED, FAILED} => IsSet(jobs[j].completed_at)
        /\ jobs[j].status = PENDING =>
              ~IsSet(jobs[j].started_at) /\ ~IsSet(jobs[j].completed_at)

\* C19: whenever started_at and completed_at of a job record are both set,
\* started_at is not later than completed_at.
C19_StartedBeforeCompleted ==
    \A j \in DOMAIN jobs :
        (IsSet(jobs[j].started_at) /\ IsSet(jobs[j].completed_at))
            => Get(jobs[j].started_at) <= Get(jobs[j].completed_at)

Answered(r, ep) ==
    req[r].pc = "responded" /\ req[r].endpoint = ep /\ IsSet(req[r].response)

\* Job j exists and belongs to user u.
Owns(u, j) == j \in DOMAIN jobs /\ jobs[j].user_id = u

\* C21: download_render_output answers with the stored bytes only for a job of
\* the caller whose status is COMPLETED, answers 400 (not ready) for a job of
\* the caller that is PENDING, PROCESSING or FAILED, and never changes a job
\* record or the blob store.
C21_DownloadGatedByStatus ==
    [][\A r \in Reqs, u \in Users, j \in JobIds :
          (req'[r].pc = "responded" /\ download_render_output(r, u, j)) =>
             LET answer == Get(req'[r].response)
             IN /\ jobs' = jobs
                /\ blobs' = blobs
                /\ answer.code = 200 =>
                      /\ Owns(u, j)
                      /\ jobs[j].status = COMPLETED
                      /\ answer.content = blobs[Get(jobs[j].output_path)]
                /\ (Owns(u, j) /\ jobs[j].status \in {PENDING, PROCESSING, FAILED})
                      => answer.code = 400]_vars

\* The owner of a job that is being executed again, whose earlier output is
\* still stored, was answered that the job is not completed.
C21_Witness ==
    \E r \in Reqs, j \in DOMAIN jobs :
       /\ Answered(r, "download_render_output")
       /\ Get(req[r].response).code = 400
       /\ jobs[j].status = PROCESSING
       /\ IsSet(jobs[j].output_path)
       /\ Get(jobs[j].output_path) \in DOMAIN blobs

\* C22: delete_render_job removes a job record only when its status is
\* PENDING, COMPLETED or FAILED, never when it is PROCESSING.
C22_NeverDeletesProcessing ==
    [][\A r \in Reqs, u \in Users, j \in JobIds :
          (req'[r].pc = "responded" /\ delete_render_job(r, u, j) /\ Owns(u, j))
             => jobs[j].status \in {PENDING, COMPLETED, FAILED}]_vars

\* C23: delete_render_job of a job of the caller deletes what the blob store
\* holds at the job's artifact path and removes the record, whether or not the
\* store held an object there.
C23_DeleteClearsArtifact ==
    [][\A r \in Reqs, u \in Users, j \in JobIds :
          (req'[r].pc = "responded" /\ delete_render_job(r, u, j) /\ Owns(u, j))
             => /\ j \notin DOMAIN jobs'
                /\ C13_Path(j, jobs[j]) \notin DOMAIN blobs']_vars

\* C29: get_render_job, download_render_output and delete_render_job for a job
\* id that has no record or whose record belongs to another user answer 404 and
\* leave the job records and the blob store as they were; list_render_jobs
\* answers with jobs of the caller only.
C29_OwnerIsolation ==
    [][/\ \A r \in Reqs, u \in Users, j \in JobIds :
            (/\ req'[r].pc = "responded"
             /\ ~Owns(u, j)
             /\ \/ get_render_job(r, u, j)
                \/ download_render_output(r, u, j)
                \/ delete_render_job(r, u, j))
               => /\ Get(req'[r].response).code = 404
                  /\ jobs' = jobs
                  /\ blobs' = blobs
       /\ \A r \in Reqs :
            (req[r].pc = "idle" /\ req'[r].endpoint = "list_render_jobs")
               => LET items == Get(req'[r].response).items
                  IN \A i \in DOMAIN items : Owns(req'[r].user, items[i].id)]_vars

\* Another user asked to delete a job that exists and has a stored output,
\* and was answered 404.
C29_Witness ==
    \E r \in Reqs, j \in DOMAIN jobs :
       /\ Answered(r, "delete_render_job")
       /\ req[r].user # jobs[j].user_id
       /\ Get(req[r].response).code = 404
       /\ IsSet(jobs[j].output_path)
       /\ Get(jobs[j].output_path) \in DOMAIN blobs

\* C25: renders_this_month and renders_reset_at of a user change only in the
\* admission step of a request of that user (the commit of the increment):
\* every step of an execution in a request or a worker, every deletion of a
\* job, every poll, listing and download leaves the users rows as they were.
C25_CounterChangedOnlyByAdmission ==
    [][/\ users' # users => \E r \in Reqs : IncrementCount(r)
       /\ \A u \in Users :
            users'[u] # users[u]
               => \E r \in Reqs : req[r].pc = "created" /\ req[r].user = u
       /\ \A r \in Reqs :
            req'[r].endpoint \in {"get_render_job", "list_render_jobs",
                                  "download_render_output", "delete_render_job"}
               => users' = users
       /\ wk' # wk => users' = users
       /\ (\E r \in Reqs : req[r].pc \in {"counted", "processing", "saved"}
                           /\ req'[r] # req[r])
             => users' = users]_vars

\* The counter has been incremented for a job that has since been handed to
\* a worker, and a job has been deleted by its owner.
C25_Witness ==
    /\ incs["u1"] >= 1
    /\ users["u1"].renders_this_month = initial["u1"] + incs["u1"]
    /\ delivered # {}
    /\ \E r \in Reqs :
          /\ Answered(r, "delete_render_job")
          /\ Get(req[r].response).code = 200

\* C24: in every state, the cv_id and the user_id of every render_jobs row
\* refer to rows that exist; in particular no row refers to a CV once delete_cv
\* has committed.
C24_JobsReferToExistingRows ==
    \A j \in DOMAIN jobs : jobs[j].cv_id \in cvs /\ jobs[j].user_id \in DOMAIN users

\* C26: when the worker's handling of a job raises outside the converter and
\* blob store calls (a commit fails after PROCESSING was committed), the job,
\* if its record exists, is left COMPLETED or FAILED, and the worker is free for
\* the next id.
C26_UnexpectedErrorMarksFailed ==
    [][\A w \in Workers :
          (wk[w].pc # "idle" /\ WorkerCommitFails(w) /\ wk[w].job_id \in DOMAIN jobs')
             => /\ jobs'[wk[w].job_id].status \in Terminal
                /\ wk'[w].pc = "idle"]_vars

\* Job j is being executed by a worker or inside a request.
C28_Executing(j) ==
    \/ \E w \in Workers : wk[w].pc # "idle" /\ wk[w].job_id = j
    \/ \E r \in Reqs : req[r].pc \in {"processing", "saved"} /\ req[r].job_id = j

\* C28: a crash of the executing worker or request after its PROCESSING commit
\* changes no job record; a PROCESSING job that nothing is executing stays
\* PROCESSING (while its record exists) in every step but a new delivery of its
\* id to a worker; and the execution that a new delivery starts leaves the job
\* FAILED at once when the CV is gone, and otherwise COMPLETED or FAILED at its
\* last commit.
C28_StuckUnlessRedelivered ==
    [][\A j \in JobIds :
          /\ \A w \in Workers :
                (wk[w].job_id = j /\ WorkerCrash(w)) => jobs' = jobs
          /\ \A r \in Reqs :
                (req[r].job_id = j /\ req[r].pc \in {"processing", "saved"} /\ ReqCrash(r))
                   => jobs' = jobs
          /\ (/\ j \in DOMAIN jobs
              /\ jobs[j].status = PROCESSING
              /\ ~C28_Executing(j)
              /\ j \in DOMAIN jobs')
                => \/ jobs'[j] = jobs[j]
                   \/ /\ \E w \in Workers : WorkerBegin(w, j)
                      /\ \/ jobs'[j].status = PROCESSING /\ C28_Executing(j)'
                         \/ jobs'[j].status = FAILED /\ jobs[j].cv_id \notin cvs
          /\ \A w \in Workers :
                (/\ wk[w].job_id = j
                 /\ wk[w].loaded_status = PROCESSING
                 /\ WorkerComplete(w) \/ WorkerFail(w)
                 /\ j \in DOMAIN jobs)
                   => jobs'[j].status \in Terminal]_vars

\* A job is PROCESSING, its id has been delivered and is not on the queue, and
\* nothing is executing it: its executor died.
C28_Witness ==
    \E j \in DOMAIN jobs :
       /\ jobs[j].status = PROCESSING
       /\ j \in delivered
       /\ j \notin queue
       /\ ~C28_Executing(j)

\* What a step of a request of user u that is answered with code leaves alone.
C30_Rejected(r, code) ==
    /\ req'[r].pc = "responded"
    /\ Get(req'[r].response).code = code
    /\ ~IsSet(Get(req'[r].response).job)
    /\ jobs' = jobs
    /\ users' = users
    /\ queue' = queue
    /\ nextJob' = nextJob

\* C30 as stated: a render request for a CV that does not exist or is not the
\* caller's is answered 404 and changes nothing.
C30_MissingDocumentIsNotFound ==
    [][\A r \in Reqs, u \in Callers, c \in Cvs, fmt \in RequestFormats, ep \in Endpoints :
          (/\ req[r].pc = "idle" /\ req'[r].pc # "idle"
           /\ ~(c \in cvs /\ CvOwner(c) = u)
           /\ Admit(r, u, c, fmt, ep))
             => C30_Rejected(r, 404)]_vars

\* C30: a render request for a CV that does not exist or is not the caller's
\* creates no job, increments no counter and enqueues nothing; it is answered
\* 404 when the caller is under the limit of their tier and 429 when the
\* caller has reached it.
C30_MissingDocumentIsRejected ==
    [][\A r \in Reqs, u \in Callers, c \in Cvs, fmt \in RequestFormats, ep \in Endpoints :
          (/\ req[r].pc = "idle" /\ req'[r].pc # "idle"
           /\ ~(c \in cvs /\ CvOwner(c) = u)
           /\ Admit(r, u, c, fmt, ep))
             => IF users[u].renders_this_month >= C5_Limit(users[u].tier)
                THEN C30_Rejected(r, 429)
                ELSE C30_Rejected(r, 404)]_vars

\* A request for a CV that was deleted after an earlier render of it has been
\* answered 404.
C30_Witness ==
    \E r \in Reqs :
       /\ req[r].pc = "responded"
       /\ req[r].endpoint \in Endpoints
       /\ Get(req[r].response).code = 404
       /\ "c1" \notin cvs
       /\ created["u1"] >= 1

\* C27: every job whose record has been created is eventually COMPLETED or
\* FAILED (or deleted with its CV), when the queue delivers each id it holds
\* or the enqueue fails and the request executes the job itself, the converter
\* and blob store calls return, and no process dies.
C27_AdmittedJobsTerminate ==
    \A j \in JobIds :
       (j \in DOMAIN jobs) ~> (j \notin DOMAIN jobs \/ jobs[j].status \in Terminal)

\* One job was executed by the worker and one inside its request, and both
\* are COMPLETED or FAILED.
C27_Witness ==
    /\ \E j \in DOMAIN jobs : j \in delivered /\ jobs[j].status \in Terminal
    /\ \E j \in DOMAIN jobs : j \notin delivered /\ jobs[j].status \in Terminal
    /\ \A r \in Reqs : req[r].pc = "idle"

\* C31: a render_cv_sync request puts nothing on the queue; the step in which
\* it answers after its admission answers with a job only when that job is
\* COMPLETED, answers 500 with the job's error_message when the job is FAILED,
\* and leaves the job record, when there is one, COMPLETED or FAILED.
C31_SyncWaitsForCompletion ==
    [][\A r \in Reqs :
          (req[r].endpoint = "render_cv_sync" /\ req'[r] # req[r])
             => /\ queue' = queue
                /\ req'[r].enqueue = "none"
                /\ (req[r].pc \in {"counted", "processing", "saved"}
                      /\ req'[r].pc = "responded")
                     => LET j == req[r].job_id
                            answer == Get(req'[r].response)
                        IN /\ IsSet(answer.job)
                                => /\ answer.code = 200
                                   /\ Get(answer.job).status = COMPLETED
                                   /\ j \in DOMAIN jobs'
                                   /\ jobs'[j].status = COMPLETED
                           /\ j \in DOMAIN jobs'
                                => /\ jobs'[j].status \in Terminal
                                   /\ jobs'[j].status = FAILED
                                        => /\ answer.code = 500
                                           /\ ~IsSet(answer.job)
                                           /\ Some(answer.detail) = jobs'[j].error_message
                                   /\ jobs'[j].status = COMPLETED => IsSet(answer.job)]_vars

\* A render_cv_sync request has answered 500 with the message of its FAILED
\* job, after a render error.
C31_Witness ==
    \E r \in Reqs, j \in DOMAIN jobs :
       /\ req[r].pc = "responded"
       /\ req[r].endpoint = "render_cv_sync"
       /\ req[r].inline
       /\ Get(req[r].response).code = 500
       /\ jobs[j].status = FAILED
       /\ IsSet(jobs[j].started_at)
       /\ jobs[j].error_message = Some(Get(req[r].response).detail)

\* C32: a refresh token yields at most one token pair; a request that presents
\* a token after a refresh with it succeeded, after a logout with it, or after
\* a logout-all or password change of its user, is answered 401; and a request
\* that presents an expired token is answered 401 and leaves the token revoked.
C32_RefreshTokensSingleUse ==
    [][/\ \A t \in TokenIds : refreshed'[t] <= 1
       /\ \A x \in RefreshSlots, t \in TokenIds :
            (rt[x].pc = "idle" /\ rt'[x].pc # "idle" /\ RefreshLookup(x, t))
               => /\ t \in spent => rt'[x].pc = "answered" /\ rt'[x].code = 401
                  /\ (t \in DOMAIN tokens /\ tokens[t].expired)
                        => /\ rt'[x].pc = "answered"
                           /\ rt'[x].code = 401
                           /\ tokens'[t].is_revoked]_vars

\* The requests of client c passed on to the app that are not health checks
\* and whose time lies in the 60 seconds from t on.
C33_InWindow(c, t) ==
    {i \in DOMAIN forwarded[c] :
        /\ ~IsHealthCheck(forwarded[c][i].path)
        /\ t <= forwarded[c][i].at
        /\ forwarded[c][i].at < t + 60}

C34_ResetStampSetOnce ==
    [][\A r \in Reqs :
          (req[r].pc = "created" /\ req'[r].pc = "counted")
             => LET u == req[r].user
                IN IF IsSet(users[u].renders_reset_at)
                   THEN users'[u].renders_reset_at = users[u].renders_reset_at
                   ELSE /\ IsSet(users'[u].renders_reset_at)
                        /\ users'[u].renders_reset_at = req'[r].renders_reset_at]_vars

\* The jobs of user u that pass the two filters of a list request.
C35_Matching(u, cv_id, status_filter) ==
    {j \in DOMAIN jobs :
        /\ jobs[j].user_id = u
        /\ cv_id # None => jobs[j].cv_id = cv_id[1]
        /\ status_filter # None => jobs[j].status = status_filter[1]}

\* The sets of ids list_render_jobs can answer a request for a page with, in
\* the present state.
C35_Pages(u, page, per_page, cv_id, status_filter) ==
    {{Paged(ordered, page, per_page)[i] : i \in DOMAIN Paged(ordered, page, per_page)} :
        ordered \in NewestFirst(Listed(u, cv_id, status_filter))}

\* C35: a list response reports as total the number of the caller's jobs that
\* pass the cv_id and status filters, and carries the jobs at positions
\* (page - 1) * per_page to page * per_page - 1 of those jobs, newest first;
\* the page shares no job with any answer the caller can get for the other
\* page from the same set of jobs, and pages 1 and 2 together hold every job
\* when the set has at most 2 * per_page jobs.
C35_PagesPartitionTheJobs ==
    [][/\ \A r \in Reqs, page \in ListPages, per_page \in ListPerPage,
            cv_id \in ListCvFilters, status_filter \in ListStatusFilters :
            (/\ req[r].pc = "idle"
             /\ req'[r].pc = "responded"
             /\ req'[r].endpoint = "list_render_jobs"
             /\ list_render_jobs(r, req'[r].user, page, per_page, cv_id, status_filter))
               => LET u == req'[r].user
                      matching == C35_Matching(u, cv_id, status_filter)
                      resp == req'[r].response[1]
                      offset == (page - 1) * per_page
                      rest == IF Cardinality(matching) > offset
                              THEN Cardinality(matching) - offset ELSE 0
                  IN /\ resp.total = Cardinality(matching)
                     /\ Len(resp.items) = IF rest < per_page THEN rest ELSE per_page
                     /\ \A i \in DOMAIN resp.items :
                          /\ resp.items[i].id \in matching
                          /\ \A k \in DOMAIN resp.items :
                               i < k => /\ resp.items[i].id # resp.items[k].id
                                        /\ resp.items[i].created_at >= resp.items[k].created_at
                          /\ Cardinality({j \in matching : jobs[j].created_at
                                            > resp.items[i].created_at}) <= offset + i - 1
                          /\ Cardinality({j \in matching : jobs[j].created_at
                                            >= resp.items[i].created_at}) >= offset + i
                     /\ \A other \in ListPages \ {page} :
                          \A ids \in C35_Pages(u, other, per_page, cv_id, status_filter) :
                             LET mine == {resp.items[i].id : i \in DOMAIN resp.items}
                             IN /\ mine \cap ids = {}
                                /\ Cardinality(matching) <= 2 * per_page
                                     => mine \cup ids = matching]_vars

\* Id j is with the request that created its job and has not yet answered, on
\* the queue, with a worker, or has been handed out by the queue before.
C36_Known(j) ==
    \/ j \in queue
    \/ j \in delivered
    \/ \E w \in Workers : wk[w].pc # "idle" /\ wk[w].job_id = j
    \/ \E r \in Reqs : req[r].pc \in {"created", "counted"} /\ req[r].job_id = j

\* C36: an id is put on the queue for the first time by a request that holds
\* the committed PENDING job and has committed the count, and the row, if it
\* is still there, is PENDING; an id that is on the queue or with a worker and
\* has no row had a row before and lost it to a deletion.
C36_QueuedAfterCommit ==
    [][\A j \in JobIds :
          /\ (j \in queue' /\ j \notin queue /\ j \notin delivered)
                => /\ \E r \in Reqs : /\ req[r].pc = "counted"
                                      /\ req[r].job_id = j
                                      /\ Get(req[r].job).status = PENDING
                   /\ j \in DOMAIN jobs => jobs[j].status = PENDING
          /\ (C36_Known(j)' /\ j \notin DOMAIN jobs')
                => (j \in DOMAIN jobs \/ C36_Known(j))]_vars

\* One job is with a worker and has its row, while the id of a job deleted in
\* the meantime waits on the queue.
C36_Witness ==
    \E j \in JobIds, k \in JobIds :
       /\ \E w \in Workers : wk[w].pc # "idle" /\ wk[w].job_id = j
       /\ j \in DOMAIN jobs
       /\ k \in queue
       /\ k \notin DOMAIN jobs

\* C37: every COMPLETED job has an output_path, the blob store holds an object
\* at that path, and the object is file_size_bytes long.
C37_CompletedJobHasItsBlob ==
    \A j \in DOMAIN jobs :
       jobs[j].status = COMPLETED
          => /\ IsSet(jobs[j].output_path)
             /\ IsSet(jobs[j].file_size_bytes)
             /\ Get(jobs[j].output_path) \in DOMAIN blobs
             /\ Len(blobs[Get(jobs[j].output_path)]) = Get(jobs[j].file_size_bytes)

\* The artifact paths a job with id j can have.
C38_Paths(j) ==
    {C13_Path(j, [user_id |-> u, cv_id |-> c, output_format |-> f]) :
        u \in Users, c \in Cvs, f \in RequestFormats}

\* Job j was created and its record is gone while every CV is still there: it
\* was removed by delete_render_job.
C38_Deleted(j) ==
    /\ \E n \in 1..nextJob : j = "j" \o ToString(n)
    /\ j \notin DOMAIN jobs
    /\ cvs = Cvs

\* A worker or a request is at work on job j.
C38_InFlight(j) ==
    \/ \E w \in Workers : wk[w].pc # "idle" /\ wk[w].job_id = j
    \/ \E r \in Reqs : req[r].pc \notin {"idle", "responded"} /\ req[r].job_id = j

\* C38: a job removed by delete_render_job never has a record again, and once
\* no execution of it is in flight the blob store holds nothing at its
\* artifact path.
C38_DeletedJobLeavesNothing ==
    [][\A j \in JobIds :
          /\ C38_Deleted(j) => j \notin DOMAIN jobs'
          /\ (C38_Deleted(j)' /\ ~C38_InFlight(j)')
                => C38_Paths(j) \cap DOMAIN blobs' = {}]_vars

\* C39: no step lowers renders_this_month of a user, and an admission of a user
\* whose counter is at or above render_limit of the tier is answered 429.
C39_CounterNeverDecreases ==
    [][/\ \A u \in Users :
            users'[u].renders_this_month >= users[u].renders_this_month
       /\ \A r \in Reqs :
            (/\ req[r].pc = "idle"
             /\ req'[r].pc # "idle"
             /\ req'[r].endpoint \in Endpoints
             /\ users[req'[r].user].renders_this_month
                   >= render_limit(users[req'[r].user].tier))
               => /\ req'[r].pc = "responded"
                  /\ req'[r].response[1].code = 429]_vars

\* The paths under renders/<u>/ at which the renders of user u are stored.
C40_Paths(u) ==
    {C13_Path(j, [user_id |-> u, cv_id |-> c, output_format |-> f]) :
        j \in JobIds, c \in Cvs, f \in RequestFormats}

\* C40: when the row of a user is gone and neither a worker nor a request is
\* at work, the blob store holds no object under renders/<user_id>/.
C40_DeletedAccountLeavesNoFiles ==
    \A u \in Users :
       (/\ u \notin DOMAIN users
        /\ \A w \in Workers : wk[w].pc = "idle"
        /\ \A r \in Reqs : req[r].pc \in {"idle", "responded"})
          => C40_Paths(u) \cap DOMAIN blobs = {}

====
